---- MODULE Spec2Model ----
(***************************************************************************)
(* GenPool: a sharded, lock-free object pool (package pool).               *)
(*                                                                         *)
(* The model follows pool.go statement by statement.  Every access to a    *)
(* shared atomic (a shard Head, an object's next or usageCount, the        *)
(* CurrentPoolLength counter, a blockedShards counter, a shard Mutex or    *)
(* Cond, the stopClean channel) is one step of the goroutine that makes    *)
(* it, so that goroutines interleave between any two such accesses.        *)
(***************************************************************************)
EXTENDS Integers, Sequences, FiniteSets, TLC

\* ---- bounds of the model ------------------------------------------------
NumCallers == 2        \* goroutines that call the pool's API
MaxObj == 3            \* objects the Allocator hands out over the pool's life
MaxShards == 2         \* largest ShardNumOverride tried
NumP == 2              \* GOMAXPROCS: runtime.procPin returns 0 .. NumP-1
MaxPool == 2           \* largest Growth.MaxPoolSize tried
MaxMinUsage == 2       \* largest Cleanup.MinUsageCount tried
MaxUsage == 2          \* Get is not called on a pool holding a count this high
MaxBlocked == 2        \* GetBlock is not called once a blocked counter is this high
ConcObj == 2           \* objects allocated when Get and Put interleave freely
ConcUsage == 4         \* the bound on usage counts when Get and Put interleave freely
BlockUsage == 3        \* the bound on usage counts when GetBlock and PutBlock alternate
MaxN == 2              \* largest n passed to GetN, longest slice passed to PutN
BatchUsage == 2        \* the bound on usage counts when GetN and PutN interleave
BatchObj == 2          \* objects allocated at most when GetN and PutN interleave
PassCallers == 1       \* goroutines that call the pool while cleanup passes interleave
SkipUsage == 1         \* the bound on usage counts when passes interleave with calls on two shards

DefaultNumShards == 8  \* numShards before any override: min(max(GOMAXPROCS, 8), 128)
Nil == 0
NoCaller == 0
Caller == 1 .. NumCallers
Obj == 1 .. MaxObj
ProcIds == 0 .. (NumP - 1)

VARIABLES
  cfg,                 \* ShardedPool.cfg, and len(ShardedPool.Shards)
  numShards,           \* the package variable numShards
  ShardHead,                \* Shards[i].Head
  Mutex,               \* Shards[i].Mutex: the caller that holds it
  Cond,                \* Shards[i].Cond: the callers parked in Wait, in order
  blockedShards,       \* ShardedPool.blockedShards
  CurrentPoolLength,   \* ShardedPool.CurrentPoolLength
  next,                \* Fields.next of every object
  usageCount,          \* Fields.usageCount of every object
  dirty,               \* the user fields of an object differ from their reset value
  allocated,           \* how many objects the Allocator has returned
  stopClean,           \* the stopClean channel is closed
  pc,                  \* where each caller is in its current call
  loc,                 \* the local variables of each caller's current call
  held,                \* the objects a caller got and has not put back
  last,                \* the call that returned last: its caller, result and shard
  cpc,                 \* where the cleanup goroutine is
  cloc                 \* the local variables of the cleanup goroutine

shardVars == <<ShardHead, Mutex, Cond, blockedShards>>
objVars == <<next, usageCount, dirty>>
callerVars == <<pc, loc, held, last>>
cleanerVars == <<cpc, cloc, stopClean>>
vars == <<cfg, numShards, shardVars, CurrentPoolLength, objVars, allocated,
          callerVars, cleanerVars>>

\* ---- helpers --------------------------------------------------------------
ShardIds == DOMAIN ShardHead

\* The locals of a call.  A Get or Put that GetN or PutN makes runs in the
\* frame of that call: outer names it, n and i are GetN's n and loop index,
\* objs is the slice GetN fills or the part of its slice PutN has still to
\* put.
NoLoc ==
  [op |-> "none", id |-> 0, shard |-> 0, obj |-> Nil, oldHead |-> Nil,
   nxt |-> Nil, scan |-> {}, maxBlocked |-> -1, removed |-> 0,
   outer |-> "none", n |-> 0, i |-> 0, objs |-> <<>>]

\* What an observer of the pool has noted: the last call that returned and,
\* for every object, the number of times Get or GetBlock has returned it
\* since the last cleanup pass began (gets), counted up to MaxMinUsage, the
\* highest count any MinUsageCount tells from a higher one; -1 for an object
\* that was not
\* in the pool when that pass began, or when no pass has run yet; an
\* observer who does not count Gets has the empty function here.  evicted
\* tells of every object whether a cleanup pass has evicted it, for an
\* observer who notes evictions (the empty function for one who does not).
\* new is
\* what a call of NewPoolWithConfig returned: a pool or nil, and the error;
\* objs is the slice a call of GetN returned.
NoLast ==
  [caller |-> NoCaller, op |-> "none", obj |-> Nil, shard |-> 0,
   gets |-> [o \in Obj |-> -1], new |-> [pool |-> FALSE, err |-> "none"],
   objs |-> <<>>, evicted |-> <<>>]

\* The locals of the cleanup goroutine, and two records of what it works on:
\* detached is the list that tryTakeOwnership took from the shard (its
\* objects, each with the usage count it had then), window is the observer's
\* count of Gets per object for the window that the pass under way ended.
\* cleaned tells whether the pass has called the user's Cleaner on the shard
\* it works on.
NoCloc ==
  [shard |-> 0, current |-> Nil, keptHead |-> Nil, keptTail |-> Nil,
   evictedCount |-> 0, currentHead |-> Nil, detached |-> <<>>,
   window |-> <<>>, cleaned |-> FALSE]

\* The program has crashed: a panic in any goroutine ends the process.
Panicked == \E p \in Caller : pc[p] = "panic"

Running == ~Panicked

\* The objects reachable from object h through next links, h included, found
\* in at most MaxObj hops (a cyclic chain gives the objects on the cycle).
RECURSIVE ReachFrom(_, _)
ReachFrom(h, seen) ==
  IF h = Nil \/ h \in seen THEN seen ELSE ReachFrom(next[h], seen \cup {h})

Resident(s) == ReachFrom(ShardHead[s], {})

AllResident == UNION {Resident(s) : s \in ShardIds}

AllHeld == UNION {held[p] : p \in Caller}

\* ---- construction -----------------------------------------------------------
\* NewPoolWithConfig with a valid configuration: getShardCount stores the
\* override in numShards, initShards sets every Head to nil and every blocked
\* counter to 0, and the cleanup goroutine is started when cleanup is enabled.
Configs ==
  [n : 1 .. MaxShards, GrowthEnable : BOOLEAN, MaxPoolSize : 1 .. MaxPool,
   CleanupEnabled : BOOLEAN, MinUsageCount : 1 .. MaxMinUsage]

PoolBuilt(c) ==
  /\ cfg = c
  /\ numShards = c.n
  /\ ShardHead = [s \in 0 .. (c.n - 1) |-> Nil]
  /\ Mutex = [s \in 0 .. (c.n - 1) |-> NoCaller]
  /\ Cond = [s \in 0 .. (c.n - 1) |-> <<>>]
  /\ blockedShards = [s \in 0 .. (c.n - 1) |-> 0]
  /\ CurrentPoolLength = 0
  /\ next = [o \in Obj |-> Nil]
  /\ usageCount = [o \in Obj |-> 0]
  /\ dirty = [o \in Obj |-> FALSE]
  /\ allocated = 0
  /\ stopClean = FALSE
  /\ pc = [p \in Caller |-> "idle"]
  /\ loc = [p \in Caller |-> NoLoc]
  /\ held = [p \in Caller |-> {}]
  /\ cpc = IF c.CleanupEnabled THEN "select" ELSE "none"
  /\ cloc = NoCloc

NewPoolWithConfig(c) == PoolBuilt(c) /\ last = NoLast

\* Any configuration a caller may pass, valid or not: Allocator and Cleaner
\* present or nil, Cleanup.Interval, Cleanup.MinUsageCount and
\* Growth.MaxPoolSize positive, zero or negative.
AnyConfigs ==
  [n : 1 .. MaxShards, GrowthEnable : BOOLEAN, MaxPoolSize : -1 .. MaxPool,
   CleanupEnabled : BOOLEAN, MinUsageCount : -1 .. MaxMinUsage,
   Interval : -1 .. 1, Allocator : BOOLEAN, Cleaner : BOOLEAN]

\* validateConfig: the error it returns, "nil" for none.
validateConfig(c) ==
  IF ~c.Allocator THEN "ErrNoAllocator"
  ELSE IF ~c.Cleaner THEN "ErrNoCleaner"
  ELSE "nil"

\* A faulty validateCleanupConfig that rejects negative values only (< 0
\* where the code has <= 0).
validateCleanupNegative(c) ==
  IF c.Interval < 0 THEN "cleanup interval must be greater than 0"
  ELSE IF c.MinUsageCount < 0 THEN "minimum usage count must be greater than 0"
  ELSE "nil"

\* validateCleanupConfig: the error it returns, "nil" for none.
validateCleanupConfig(c) ==
  IF c.Interval <= 0 THEN "cleanup interval must be greater than 0"
  ELSE IF c.MinUsageCount <= 0 THEN "minimum usage count must be greater than 0"
  ELSE "nil"

\* No pool yet: the state in which a caller is about to pass configuration
\* c to NewPoolWithConfig.  numShards is the package variable, still at the
\* value it was initialised with.
NoPool(c) ==
  /\ cfg = c
  /\ numShards = DefaultNumShards
  /\ ShardHead = <<>>
  /\ Mutex = <<>>
  /\ Cond = <<>>
  /\ blockedShards = <<>>
  /\ CurrentPoolLength = 0
  /\ next = [o \in Obj |-> Nil]
  /\ usageCount = [o \in Obj |-> 0]
  /\ dirty = [o \in Obj |-> FALSE]
  /\ allocated = 0
  /\ stopClean = FALSE
  /\ pc = [p \in Caller |-> "idle"]
  /\ loc = [p \in Caller |-> NoLoc]
  /\ held = [p \in Caller |-> {}]
  /\ last = NoLast
  /\ cpc = "none"
  /\ cloc = NoCloc

\* NewPoolWithConfig returns (pool, err) to caller p.
ReturnNew(p, pool, err) ==
  /\ pc' = [pc EXCEPT ![p] = "idle"]
  /\ loc' = [loc EXCEPT ![p] = NoLoc]
  /\ last' = [last EXCEPT !.caller = p, !.op = "NewPoolWithConfig",
                           !.new = [pool |-> pool, err |-> err]]

\* Caller p calls NewPoolWithConfig(cfg); nobody has done so yet.
New(p) ==
  /\ pc[p] = "idle"
  /\ last.new.err = "none"
  /\ \A q \in Caller : pc[q] = "idle"
  /\ pc' = [pc EXCEPT ![p] = "new"]
  /\ loc' = [loc EXCEPT ![p] = [NoLoc EXCEPT !.op = "NewPoolWithConfig"]]
  /\ UNCHANGED <<cfg, numShards, shardVars, CurrentPoolLength, objVars,
                 allocated, held, last, cleanerVars>>

\* NewPoolWithConfig up to initShards: an error of validateConfig is
\* returned with a nil pool; otherwise the pool is built, getShardCount
\* stores the override in numShards and initShards sets up the shards and
\* the blocked counters.  With cleanup disabled the pool is returned.
newPool(p) ==
  /\ pc[p] = "new"
  /\ LET err == validateConfig(cfg)
     IN IF err # "nil"
        THEN /\ ReturnNew(p, FALSE, err)
             /\ UNCHANGED <<numShards, shardVars>>
        ELSE /\ numShards' = cfg.n
             /\ ShardHead' = [s \in 0 .. (cfg.n - 1) |-> Nil]
             /\ Mutex' = [s \in 0 .. (cfg.n - 1) |-> NoCaller]
             /\ Cond' = [s \in 0 .. (cfg.n - 1) |-> <<>>]
             /\ blockedShards' = [s \in 0 .. (cfg.n - 1) |-> 0]
             /\ IF cfg.CleanupEnabled
                THEN /\ pc' = [pc EXCEPT ![p] = "new_cleanup"]
                     /\ UNCHANGED <<loc, last>>
                ELSE ReturnNew(p, TRUE, "nil")
  /\ UNCHANGED <<cfg, CurrentPoolLength, objVars, allocated, held, cleanerVars>>

\* NewPoolWithConfig with cleanup enabled: an error of validateCleanupConfig
\* is returned with a nil pool; otherwise pool.startCleaner() starts the
\* cleanup goroutine and the pool is returned.
newCleaner(p) ==
  /\ pc[p] = "new_cleanup"
  /\ LET err == validateCleanupConfig(cfg)
     IN IF err # "nil"
        THEN /\ ReturnNew(p, FALSE, err)
             /\ UNCHANGED cpc
        ELSE /\ ReturnNew(p, TRUE, "nil")
             /\ cpc' = "select"
  /\ UNCHANGED <<cfg, numShards, shardVars, CurrentPoolLength, objVars,
                 allocated, held, cloc, stopClean>>

\* ---- getShard -----------------------------------------------------------------
\* p.Shards[id%numShards]: the index of the shard for processor id.
getShard(id) == id % numShards

\* getShardCount in the construction of another pool of the same program
\* with ShardNumOverride m: a positive m is stored in the package variable
\* numShards, which getShard of every pool reads.
getShardCount(m) ==
  /\ Running
  /\ numShards' = IF m > 0 THEN m ELSE numShards
  /\ UNCHANGED <<cfg, shardVars, CurrentPoolLength, objVars, allocated,
                 callerVars, cleanerVars>>

\* ---- the calls' shared pieces ---------------------------------------------------
\* A faulty GetN that stores every result in the first element of the
\* slice (objs[0] where the code has objs[i]).
getNStoreFirst(objs, i, obj) == [objs EXCEPT ![1] = obj]

\* GetN: objs[i] = p.Get(), i counted from 1.
getNStore(objs, i, obj) == [objs EXCEPT ![i] = obj]

\* The call of caller p returns obj; its frame is gone.  A Get that GetN
\* made returns into GetN's loop, where the result is stored in the slice;
\* a Put that PutN made returns into PutN's loop; the observer notes the
\* calls of the pool's users only, and counts every Get.
Return(p, obj) ==
  /\ pc' = [pc EXCEPT ![p] = CASE loc[p].outer = "GetN" -> "getn_loop"
                                 [] loc[p].outer = "PutN" -> "putn_loop"
                                 [] OTHER -> "idle"]
  /\ loc' = [loc EXCEPT ![p] =
               CASE loc[p].outer = "GetN" ->
                      [NoLoc EXCEPT !.outer = "GetN", !.op = "GetN",
                                    !.n = loc[p].n, !.i = loc[p].i + 1,
                                    !.objs = getNStore(loc[p].objs,
                                                       loc[p].i + 1, obj)]
                 [] loc[p].outer = "PutN" ->
                      [NoLoc EXCEPT !.outer = "PutN", !.op = "PutN",
                                    !.objs = Tail(loc[p].objs)]
                 [] OTHER -> NoLoc]
  /\ last' = [last EXCEPT
                !.caller = IF loc[p].outer = "none" THEN p ELSE @,
                !.op = IF loc[p].outer = "none" THEN loc[p].op ELSE @,
                !.obj = IF loc[p].outer = "none" THEN obj ELSE @,
                !.shard = IF loc[p].outer = "none" THEN loc[p].shard ELSE @,
                !.gets = IF /\ loc[p].op \in {"Get", "GetBlock"}
                            /\ obj \in DOMAIN @
                            /\ @[obj] >= 0
                            /\ @[obj] < MaxMinUsage
                         THEN [@ EXCEPT ![obj] = @ + 1]
                         ELSE @]

Goto(p, label) == pc' = [pc EXCEPT ![p] = label]

\* The first statement of Get and of GetBlock: getShard, then the first
\* Head.Load of retrieveFromShard.  Get drops the processor id that getShard
\* returns with the shard (shard, _ := p.getShard()), GetBlock keeps it.
\* An index id%numShards beyond p.Shards is a run-time panic (index out of
\* range).
BeginRetrieve(p, op, id) ==
  /\ Running
  /\ pc[p] = "idle"
  /\ LET s == getShard(id)
         h == IF s \in ShardIds THEN ShardHead[s] ELSE Nil
     IN /\ loc' = [loc EXCEPT ![p] = [NoLoc EXCEPT
                                        !.op = op,
                                        !.id = IF op = "Get" THEN 0 ELSE id,
                                        !.shard = s, !.oldHead = h]]
        /\ pc' = [pc EXCEPT ![p] = IF s \notin ShardIds THEN "panic"
                                   ELSE IF h = Nil THEN "growth"
                                   ELSE "rfs_next"]
  /\ UNCHANGED last
  /\ UNCHANGED <<cfg, numShards, shardVars, CurrentPoolLength, objVars,
                 allocated, held, cleanerVars>>

Get(p) == \E id \in ProcIds : BeginRetrieve(p, "Get", id)

GetBlock(p) == \E id \in ProcIds : BeginRetrieve(p, "GetBlock", id)

\* retrieveFromShard, at the top of its loop: oldHead := shard.Head.Load().
\* A nil head ends it without success: Get and the fast path of GetBlock go
\* on to the growth policy, the wait loop of GetBlock goes on to Cond.Wait.
rfsLoad(p) ==
  /\ Running
  /\ pc[p] = "rfs_load"
  /\ LET h == ShardHead[loc[p].shard]
     IN /\ loc' = [loc EXCEPT ![p].oldHead = h]
        /\ Goto(p, IF h # Nil THEN "rfs_next"
                   ELSE IF Mutex[loc[p].shard] = p THEN "wait" ELSE "growth")
  /\ UNCHANGED <<cfg, numShards, shardVars, CurrentPoolLength, objVars,
                 allocated, held, last, cleanerVars>>

\* retrieveFromShard: next := oldHead.GetNext().
rfsNext(p) ==
  /\ Running
  /\ pc[p] = "rfs_next"
  /\ loc' = [loc EXCEPT ![p].nxt = next[loc[p].oldHead]]
  /\ Goto(p, "rfs_cas")
  /\ UNCHANGED <<cfg, numShards, shardVars, CurrentPoolLength, objVars,
                 allocated, held, last, cleanerVars>>

\* retrieveFromShard: shard.Head.CompareAndSwap(oldHead, next); a failed swap
\* goes round the loop.
rfsCas(p) ==
  /\ Running
  /\ pc[p] = "rfs_cas"
  /\ LET s == loc[p].shard
     IN IF ShardHead[s] = loc[p].oldHead
        THEN /\ ShardHead' = [ShardHead EXCEPT ![s] = loc[p].nxt]
             /\ loc' = [loc EXCEPT ![p].obj = loc[p].oldHead]
             /\ Goto(p, "inc")
        ELSE /\ Goto(p, "rfs_load")
             /\ UNCHANGED <<ShardHead, loc>>
  /\ UNCHANGED <<cfg, numShards, Mutex, Cond, blockedShards, CurrentPoolLength,
                 objVars, allocated, held, last, cleanerVars>>

\* A faulty incrementAndReturn that returns the popped object without
\* obj.IncrementUsage().
returnWithoutIncrement(p) ==
  /\ Running
  /\ pc[p] = "inc"
  /\ LET o == loc[p].obj
         s == loc[p].shard
     IN /\ Mutex' = IF Mutex[s] = p THEN [Mutex EXCEPT ![s] = NoCaller] ELSE Mutex
        /\ held' = [held EXCEPT ![p] = @ \cup {o}]
        /\ Return(p, o)
  /\ UNCHANGED <<cfg, numShards, ShardHead, Cond, blockedShards, CurrentPoolLength,
                 objVars, allocated, cleanerVars>>

\* After a successful retrieveFromShard: obj.IncrementUsage(); return obj.
\* A GetBlock that holds the shard's mutex releases it on return (the
\* deferred Unlock).
incrementAndReturn(p) ==
  /\ Running
  /\ pc[p] = "inc"
  /\ LET o == loc[p].obj
         s == loc[p].shard
     IN /\ usageCount' = [usageCount EXCEPT ![o] = @ + 1]
        /\ Mutex' = IF Mutex[s] = p THEN [Mutex EXCEPT ![s] = NoCaller] ELSE Mutex
        /\ held' = [held EXCEPT ![p] = @ \cup {o}]
        /\ Return(p, o)
  /\ UNCHANGED <<cfg, numShards, ShardHead, Cond, blockedShards, CurrentPoolLength,
                 next, dirty, allocated, cleanerVars>>

\* The growth policy of Get and GetBlock:
\*   !p.cfg.Growth.Enable || p.CurrentPoolLength.Load() < p.cfg.Growth.MaxPoolSize
\* A Get that may not grow returns nil; a GetBlock that may not grow goes on
\* to block.  The step that could allocate waits while the Allocator has no
\* object left to hand out (the bound MaxObj).
Allocating == {q \in Caller : pc[q] = "alloc"}

\* A faulty growth policy that still allocates with the pool at the ceiling
\* (<= where the code has <).
mayGrowAtCeiling == ~cfg.GrowthEnable \/ CurrentPoolLength <= cfg.MaxPoolSize

\* A faulty growth policy that allocates nothing once stopClean is closed.
mayGrowUnlessClosed ==
  (~cfg.GrowthEnable \/ CurrentPoolLength < cfg.MaxPoolSize) /\ ~stopClean

mayGrow == ~cfg.GrowthEnable \/ CurrentPoolLength < cfg.MaxPoolSize

growth(p) ==
  /\ Running
  /\ pc[p] = "growth"
  /\ IF mayGrow
     THEN /\ allocated + Cardinality(Allocating) < MaxObj
          /\ Goto(p, "alloc")
          /\ UNCHANGED <<loc, last>>
     ELSE IF loc[p].op = "Get"
          THEN Return(p, Nil)
          ELSE /\ Goto(p, "blk_add")
               /\ UNCHANGED <<loc, last>>
  /\ UNCHANGED <<cfg, numShards, shardVars, CurrentPoolLength, objVars,
                 allocated, held, cleanerVars>>

\* obj := P(p.cfg.Allocator()); obj.IncrementUsage();
\* p.CurrentPoolLength.Add(1); return obj.  The Allocator returns an object
\* never seen before, with zeroed Fields and initialised user fields.
alloc(p) ==
  /\ Running
  /\ pc[p] = "alloc"
  /\ LET o == allocated + 1
     IN /\ allocated' = o
        /\ usageCount' = [usageCount EXCEPT ![o] = 1]
        /\ dirty' = [dirty EXCEPT ![o] = TRUE]
        /\ CurrentPoolLength' = CurrentPoolLength + 1
        /\ held' = [held EXCEPT ![p] = @ \cup {o}]
        /\ Return(p, o)
  /\ UNCHANGED <<cfg, numShards, shardVars, next, cleanerVars>>

\* ---- Put ------------------------------------------------------------------------
\* The first statements of Put: p.cfg.Cleaner(obj); getShard; then the first
\* oldHead := shard.Head.Load() of the loop.  The caller gives up the object.
\* An index id%numShards beyond p.Shards is a run-time panic.
Put(p) ==
  /\ Running
  /\ pc[p] = "idle"
  /\ \E o \in held[p], id \in ProcIds :
       /\ held' = [held EXCEPT ![p] = @ \ {o}]
       /\ dirty' = [dirty EXCEPT ![o] = FALSE]
       /\ loc' = [loc EXCEPT ![p] = [NoLoc EXCEPT !.op = "Put", !.obj = o,
                                       !.shard = getShard(id),
                                       !.oldHead =
                                         IF getShard(id) \in ShardIds
                                         THEN ShardHead[getShard(id)]
                                         ELSE Nil]]
       /\ Goto(p, IF getShard(id) \in ShardIds THEN "put_cas" ELSE "panic")
  /\ UNCHANGED last
  /\ UNCHANGED <<cfg, numShards, shardVars, CurrentPoolLength, next, usageCount,
                 allocated, cleanerVars>>

\* Put and PutBlock, at the top of the loop after a failed swap:
\* oldHead := shard.Head.Load().
putLoad(p) ==
  /\ Running
  /\ pc[p] = "put_load"
  /\ loc' = [loc EXCEPT ![p].oldHead = ShardHead[loc[p].shard]]
  /\ Goto(p, "put_cas")
  /\ UNCHANGED <<cfg, numShards, shardVars, CurrentPoolLength, objVars,
                 allocated, held, last, cleanerVars>>

\* A faulty Put that tries the swap again with the head it loaded first (the
\* Head.Load outside the loop).
putCasWithoutReload(p) ==
  /\ Running
  /\ pc[p] = "put_cas"
  /\ LET s == loc[p].shard
     IN IF ShardHead[s] = loc[p].oldHead
        THEN /\ ShardHead' = [ShardHead EXCEPT ![s] = loc[p].obj]
             /\ Goto(p, "put_setnext")
        ELSE /\ Goto(p, "put_cas")
             /\ UNCHANGED ShardHead
  /\ UNCHANGED <<cfg, numShards, Mutex, Cond, blockedShards, CurrentPoolLength,
                 objVars, allocated, loc, held, last, cleanerVars>>

\* Put and PutBlock: shard.Head.CompareAndSwap(oldHead, obj).
putCas(p) ==
  /\ Running
  /\ pc[p] = "put_cas"
  /\ LET s == loc[p].shard
     IN IF ShardHead[s] = loc[p].oldHead
        THEN /\ ShardHead' = [ShardHead EXCEPT ![s] = loc[p].obj]
             /\ Goto(p, "put_setnext")
        ELSE /\ Goto(p, "put_load")
             /\ UNCHANGED ShardHead
  /\ UNCHANGED <<cfg, numShards, Mutex, Cond, blockedShards, CurrentPoolLength,
                 objVars, allocated, loc, held, last, cleanerVars>>

\* A faulty putSetNext that ends the pushed object's list (SetNext(nil))
\* instead of linking the old head behind it.
putSetNextNil(p) ==
  /\ Running
  /\ pc[p] = "put_setnext"
  /\ next' = [next EXCEPT ![loc[p].obj] = Nil]
  /\ IF loc[p].op = "Put"
     THEN Return(p, loc[p].obj)
     ELSE /\ Goto(p, "signal")
          /\ UNCHANGED <<loc, last>>
  /\ UNCHANGED <<cfg, numShards, shardVars, CurrentPoolLength, usageCount, dirty,
                 allocated, held, cleanerVars>>

\* Put and PutBlock, after the swap succeeded: obj.SetNext(oldHead).  Put
\* then returns; PutBlock goes on to shard.Cond.Signal().
putSetNext(p) ==
  /\ Running
  /\ pc[p] = "put_setnext"
  /\ next' = [next EXCEPT ![loc[p].obj] = loc[p].oldHead]
  /\ IF loc[p].op = "Put"
     THEN Return(p, loc[p].obj)
     ELSE /\ Goto(p, "signal")
          /\ UNCHANGED <<loc, last>>
  /\ UNCHANGED <<cfg, numShards, shardVars, CurrentPoolLength, usageCount, dirty,
                 allocated, held, cleanerVars>>

\* ---- GetN and PutN ---------------------------------------------------------------
\* GetN(n): objs := make([]P, n), a slice of n nil elements.
GetN(p) ==
  /\ Running
  /\ pc[p] = "idle"
  /\ \E n \in 0 .. MaxN :
       loc' = [loc EXCEPT ![p] = [NoLoc EXCEPT !.outer = "GetN", !.op = "GetN",
                                               !.n = n,
                                               !.objs = [k \in 1 .. n |-> Nil]]]
  /\ Goto(p, "getn_loop")
  /\ UNCHANGED <<cfg, numShards, shardVars, CurrentPoolLength, objVars,
                 allocated, held, last, cleanerVars>>

\* GetN, the head of its loop (for i := range n): with i < n it calls Get,
\* whose first statements are getShard and the first Head.Load of
\* retrieveFromShard; after n rounds it returns objs.
getNLoop(p) ==
  /\ Running
  /\ pc[p] = "getn_loop"
  /\ IF loc[p].i < loc[p].n
     THEN /\ \E id \in ProcIds :
               LET s == getShard(id)
                   h == ShardHead[s]
               IN /\ loc' = [loc EXCEPT ![p].op = "Get", ![p].shard = s,
                                        ![p].oldHead = h]
                  /\ Goto(p, IF h = Nil THEN "growth" ELSE "rfs_next")
          /\ UNCHANGED last
     ELSE /\ Goto(p, "idle")
          /\ loc' = [loc EXCEPT ![p] = NoLoc]
          /\ last' = [last EXCEPT !.caller = p, !.op = "GetN", !.obj = Nil,
                                   !.shard = 0, !.objs = loc[p].objs]
  /\ UNCHANGED <<cfg, numShards, shardVars, CurrentPoolLength, objVars,
                 allocated, held, cleanerVars>>

\* The slices of at most MaxN different objects out of S.
Slices(S) ==
  {q \in UNION {[1 .. k -> S] : k \in 0 .. MaxN} :
     \A a, b \in DOMAIN q : a # b => q[a] # q[b]}

\* PutN(objs): the caller gives up the objects of the slice.
PutN(p) ==
  /\ Running
  /\ pc[p] = "idle"
  /\ \E objs \in Slices(held[p]) :
       /\ held' = [held EXCEPT ![p] = @ \ {objs[k] : k \in DOMAIN objs}]
       /\ loc' = [loc EXCEPT ![p] = [NoLoc EXCEPT !.outer = "PutN",
                                                  !.op = "PutN",
                                                  !.objs = objs]]
  /\ Goto(p, "putn_loop")
  /\ UNCHANGED <<cfg, numShards, shardVars, CurrentPoolLength, objVars,
                 allocated, last, cleanerVars>>

\* PutN, the head of its loop (for _, obj := range objs): it calls Put for
\* the next object, whose first statements are p.cfg.Cleaner(obj), getShard
\* and the first Head.Load; after the last object it returns.
putNLoop(p) ==
  /\ Running
  /\ pc[p] = "putn_loop"
  /\ IF loc[p].objs # <<>>
     THEN /\ \E id \in ProcIds :
               LET o == Head(loc[p].objs)
               IN /\ dirty' = [dirty EXCEPT ![o] = FALSE]
                  /\ loc' = [loc EXCEPT ![p].op = "Put", ![p].obj = o,
                                        ![p].shard = getShard(id),
                                        ![p].oldHead = ShardHead[getShard(id)]]
          /\ Goto(p, "put_cas")
          /\ UNCHANGED last
     ELSE /\ Goto(p, "idle")
          /\ loc' = [loc EXCEPT ![p] = NoLoc]
          /\ last' = [last EXCEPT !.caller = p, !.op = "PutN", !.obj = Nil,
                                   !.shard = 0]
          /\ UNCHANGED dirty
  /\ UNCHANGED <<cfg, numShards, shardVars, CurrentPoolLength, next, usageCount,
                 allocated, held, cleanerVars>>

\* ---- PutBlock and the blocking path of GetBlock ---------------------------------
\* The first statements of PutBlock: p.cfg.Cleaner(obj), then the call of
\* getMostBlockedShard with maxBlocked = -1 and the whole map still to visit.
PutBlock(p) ==
  /\ Running
  /\ pc[p] = "idle"
  /\ \E o \in held[p] :
       /\ held' = [held EXCEPT ![p] = @ \ {o}]
       /\ dirty' = [dirty EXCEPT ![o] = FALSE]
       /\ loc' = [loc EXCEPT ![p] = [NoLoc EXCEPT !.op = "PutBlock", !.obj = o,
                                       !.scan = DOMAIN blockedShards]]
  /\ Goto(p, "gmb_scan")
  /\ UNCHANGED last
  /\ UNCHANGED <<cfg, numShards, shardVars, CurrentPoolLength, next, usageCount,
                 allocated, cleanerVars>>

\* A faulty getMostBlockedShard that keeps the shard with the lowest counter
\* (val < maxBlocked where the code has val > maxBlocked).
getLeastBlockedShard(p) ==
  /\ Running
  /\ pc[p] = "gmb_scan"
  /\ \E shardID \in loc[p].scan :
       LET val == blockedShards[shardID]
           less == loc[p].maxBlocked = -1 \/ val < loc[p].maxBlocked
       IN /\ loc' = [loc EXCEPT ![p].scan = @ \ {shardID},
                                ![p].maxBlocked = IF less THEN val ELSE @,
                                ![p].shard = IF less THEN shardID ELSE @]
          /\ Goto(p, IF loc[p].scan = {shardID} THEN "put_load" ELSE "gmb_scan")
  /\ UNCHANGED <<cfg, numShards, shardVars, CurrentPoolLength, objVars,
                 allocated, held, last, cleanerVars>>

\* getMostBlockedShard, one round of its loop over the blockedShards map: a
\* range over a Go map visits the keys in an order that is not specified, so
\* any key not yet visited may come next.  val := counter.Load(); a value
\* above maxBlocked makes this shard the most blocked one so far.
getMostBlockedShard(p) ==
  /\ Running
  /\ pc[p] = "gmb_scan"
  /\ \E shardID \in loc[p].scan :
       LET val == blockedShards[shardID]
           more == val > loc[p].maxBlocked
       IN /\ loc' = [loc EXCEPT ![p].scan = @ \ {shardID},
                                ![p].maxBlocked = IF more THEN val ELSE @,
                                ![p].shard = IF more THEN shardID ELSE @]
          /\ Goto(p, IF loc[p].scan = {shardID} THEN "put_load" ELSE "gmb_scan")
  /\ UNCHANGED <<cfg, numShards, shardVars, CurrentPoolLength, objVars,
                 allocated, held, last, cleanerVars>>

\* PutBlock: shard.Cond.Signal(); return.  Signal wakes the caller that has
\* waited longest on the condition, if there is one; the woken caller has
\* still to take the mutex again before its Wait returns.
signal(p) ==
  /\ Running
  /\ pc[p] = "signal"
  /\ LET s == loc[p].shard
     IN IF Cond[s] = <<>>
        THEN /\ pc' = [pc EXCEPT ![p] = "idle"]
             /\ UNCHANGED Cond
        ELSE /\ pc' = [pc EXCEPT ![p] = "idle", ![Head(Cond[s])] = "relock"]
             /\ Cond' = [Cond EXCEPT ![s] = Tail(@)]
  /\ loc' = [loc EXCEPT ![p] = NoLoc]
  /\ last' = [last EXCEPT !.caller = p, !.op = "PutBlock",
                           !.obj = loc[p].obj, !.shard = loc[p].shard]
  /\ UNCHANGED <<cfg, numShards, ShardHead, Mutex, blockedShards,
                 CurrentPoolLength, objVars, allocated, held, cleanerVars>>

\* GetBlock: p.blockedShards[shardID].Add(1), where shardID is the processor
\* id that getShard returned.  The map has the keys 0 .. len(Shards)-1: for
\* any other id the lookup yields a nil *atomic.Int64 and Add panics.
blockedAdd(p) ==
  /\ Running
  /\ pc[p] = "blk_add"
  /\ IF loc[p].id \in DOMAIN blockedShards
     THEN /\ blockedShards' = [blockedShards EXCEPT ![loc[p].id] = @ + 1]
          /\ Goto(p, "lock")
     ELSE /\ Goto(p, "panic")
          /\ UNCHANGED blockedShards
  /\ UNCHANGED <<cfg, numShards, ShardHead, Mutex, Cond, CurrentPoolLength,
                 objVars, allocated, loc, held, last, cleanerVars>>

\* GetBlock: shard.Mutex.Lock(), and the Lock with which a woken Cond.Wait
\* ends.  Either waits until the mutex is free; the wait loop then calls
\* retrieveFromShard.
mutexLock(p) ==
  /\ Running
  /\ pc[p] \in {"lock", "relock"}
  /\ Mutex[loc[p].shard] = NoCaller
  /\ Mutex' = [Mutex EXCEPT ![loc[p].shard] = p]
  /\ Goto(p, "rfs_load")
  /\ UNCHANGED <<cfg, numShards, ShardHead, Cond, blockedShards,
                 CurrentPoolLength, objVars, allocated, loc, held, last,
                 cleanerVars>>

\* A faulty Cond.Wait that parks the goroutine without unlocking the mutex.
condWaitLocked(p) ==
  /\ Running
  /\ pc[p] = "wait"
  /\ Cond' = [Cond EXCEPT ![loc[p].shard] = Append(@, p)]
  /\ Goto(p, "parked")
  /\ UNCHANGED <<cfg, numShards, ShardHead, Mutex, blockedShards,
                 CurrentPoolLength, objVars, allocated, loc, held, last,
                 cleanerVars>>

\* GetBlock: shard.Cond.Wait() joins the condition's wait list, unlocks the
\* mutex and parks the goroutine until a Signal picks it.
condWait(p) ==
  /\ Running
  /\ pc[p] = "wait"
  /\ Cond' = [Cond EXCEPT ![loc[p].shard] = Append(@, p)]
  /\ Mutex' = [Mutex EXCEPT ![loc[p].shard] = NoCaller]
  /\ Goto(p, "parked")
  /\ UNCHANGED <<cfg, numShards, ShardHead, blockedShards, CurrentPoolLength,
                 objVars, allocated, loc, held, last, cleanerVars>>

\* ---- the cleanup goroutine ------------------------------------------------------
callerFrame == <<cfg, numShards, allocated, callerVars>>

\* cleanup moves on to the next shard of its range over p.Shards, or is done.
nextShard ==
  IF cloc.shard + 1 \in ShardIds
  THEN /\ cpc' = "take"
       /\ cloc' = [NoCloc EXCEPT !.shard = cloc.shard + 1,
                                 !.window = cloc.window]
  ELSE /\ cpc' = "select"
       /\ cloc' = NoCloc

\* startCleaner's select, case <-ticker.C: p.cleanup(), which starts its
\* range over the shards (cfg.Cleanup.Enabled holds whenever the goroutine
\* exists).
tick ==
  /\ Running
  /\ cpc = "select"
  /\ cpc' = "take"
  /\ cloc' = [NoCloc EXCEPT !.window = last.gets]
  /\ last' = [NoLast EXCEPT
                !.op = "cleanup",
                !.gets = [o \in DOMAIN last.gets |->
                            IF o \in AllHeld \cup AllResident THEN 0 ELSE -1],
                !.evicted = last.evicted]
  /\ UNCHANGED <<cfg, numShards, allocated, pc, loc, held, shardVars,
                 CurrentPoolLength, objVars, stopClean>>

\* startCleaner's select, case <-p.stopClean: return (cleanWg.Done).
cleanerExit ==
  /\ Running
  /\ cpc = "select"
  /\ stopClean
  /\ cpc' = "exited"
  /\ UNCHANGED <<callerFrame, shardVars, CurrentPoolLength, objVars, cloc,
                 stopClean>>

\* tryTakeOwnership: head := shard.Head.Load(); a nil head returns nil and
\* cleanupShard returns.
tryTakeOwnershipLoad ==
  /\ Running
  /\ cpc = "take"
  /\ LET h == ShardHead[cloc.shard]
     IN IF h = Nil
        THEN nextShard
        ELSE /\ cpc' = "take_cas"
             /\ cloc' = [cloc EXCEPT !.current = h]
  /\ UNCHANGED <<callerFrame, shardVars, CurrentPoolLength, objVars, stopClean>>

\* A faulty tryTakeOwnership that loads the head again after a failed swap
\* and tries the same shard once more.
tryTakeOwnershipRetry ==
  /\ Running
  /\ cpc = "take_cas"
  /\ IF ShardHead[cloc.shard] = cloc.current
     THEN /\ ShardHead' = [ShardHead EXCEPT ![cloc.shard] = Nil]
          /\ cpc' = "filter"
          /\ cloc' = [cloc EXCEPT !.detached =
                         [o \in ReachFrom(cloc.current, {}) |-> usageCount[o]]]
     ELSE /\ cpc' = "take"
          /\ cloc' = [cloc EXCEPT !.current = Nil]
          /\ UNCHANGED ShardHead
  /\ UNCHANGED <<callerFrame, Mutex, Cond, blockedShards, CurrentPoolLength,
                 objVars, stopClean>>

\* tryTakeOwnership: shard.Head.CompareAndSwap(head, nil); on failure it
\* returns nil and cleanupShard returns, on success filterUsableObjects
\* starts at head.
tryTakeOwnershipCas ==
  /\ Running
  /\ cpc = "take_cas"
  /\ IF ShardHead[cloc.shard] = cloc.current
     THEN /\ ShardHead' = [ShardHead EXCEPT ![cloc.shard] = Nil]
          /\ cpc' = "filter"
          /\ cloc' = [cloc EXCEPT !.detached =
                         [o \in ReachFrom(cloc.current, {}) |-> usageCount[o]]]
     ELSE /\ nextShard
          /\ UNCHANGED ShardHead
  /\ UNCHANGED <<callerFrame, Mutex, Cond, blockedShards, CurrentPoolLength,
                 objVars, stopClean>>

\* A faulty filterUsableObjects that keeps an object without ResetUsage.
filterWithoutReset ==
  /\ Running
  /\ cpc = "filter"
  /\ cloc.current # Nil
  /\ LET current == cloc.current
         nxt == next[current]
     IN IF usageCount[current] >= cfg.MinUsageCount
        THEN /\ next' = IF cloc.keptHead = Nil THEN next
                        ELSE [next EXCEPT ![cloc.keptTail] = current]
             /\ cloc' = [cloc EXCEPT
                           !.keptHead = IF @ = Nil THEN current ELSE @,
                           !.keptTail = current, !.current = nxt]
             /\ UNCHANGED last
        ELSE /\ next' = [next EXCEPT ![current] = Nil]
             /\ cloc' = [cloc EXCEPT !.evictedCount = @ + 1, !.current = nxt]
             /\ last' = [last EXCEPT !.evicted =
                           [o \in DOMAIN @ |-> @[o] \/ o = current]]
  /\ UNCHANGED <<cfg, numShards, allocated, pc, loc, held, shardVars,
                 CurrentPoolLength, usageCount, dirty, cpc, stopClean>>

\* A faulty filterUsableObjects that keeps only the objects with a usage
\* count above MinUsageCount (> where the code has >=).
filterAboveMinUsage ==
  /\ Running
  /\ cpc = "filter"
  /\ cloc.current # Nil
  /\ LET current == cloc.current
         nxt == next[current]
     IN IF usageCount[current] > cfg.MinUsageCount
        THEN /\ usageCount' = [usageCount EXCEPT ![current] = 0]
             /\ next' = IF cloc.keptHead = Nil THEN next
                        ELSE [next EXCEPT ![cloc.keptTail] = current]
             /\ cloc' = [cloc EXCEPT
                           !.keptHead = IF @ = Nil THEN current ELSE @,
                           !.keptTail = current, !.current = nxt]
             /\ UNCHANGED last
        ELSE /\ next' = [next EXCEPT ![current] = Nil]
             /\ cloc' = [cloc EXCEPT !.evictedCount = @ + 1, !.current = nxt]
             /\ last' = [last EXCEPT !.evicted =
                           [o \in DOMAIN @ |-> @[o] \/ o = current]]
             /\ UNCHANGED usageCount
  /\ UNCHANGED <<cfg, numShards, allocated, pc, loc, held, shardVars, CurrentPoolLength, dirty,
                 cpc, stopClean>>

\* A faulty filterUsableObjects that calls the user's Cleaner on every
\* object it evicts.
filterCleansEvicted ==
  /\ Running
  /\ cpc = "filter"
  /\ cloc.current # Nil
  /\ LET current == cloc.current
         nxt == next[current]
     IN IF usageCount[current] >= cfg.MinUsageCount
        THEN /\ usageCount' = [usageCount EXCEPT ![current] = 0]
             /\ next' = IF cloc.keptHead = Nil THEN next
                        ELSE [next EXCEPT ![cloc.keptTail] = current]
             /\ cloc' = [cloc EXCEPT
                           !.keptHead = IF @ = Nil THEN current ELSE @,
                           !.keptTail = current, !.current = nxt]
             /\ UNCHANGED <<last, dirty>>
        ELSE /\ next' = [next EXCEPT ![current] = Nil]
             /\ cloc' = [cloc EXCEPT !.evictedCount = @ + 1, !.current = nxt,
                                      !.cleaned = TRUE]
             /\ dirty' = [dirty EXCEPT ![current] = FALSE]
             /\ last' = [last EXCEPT !.evicted =
                           [o \in DOMAIN @ |-> @[o] \/ o = current]]
             /\ UNCHANGED usageCount
  /\ UNCHANGED <<cfg, numShards, allocated, pc, loc, held, shardVars,
                 CurrentPoolLength, cpc, stopClean>>

\* A faulty filterUsableObjects that puts a kept object in front of the kept
\* list instead of behind keptTail, so that the survivors come back in the
\* reverse order.
filterPrependsKept ==
  /\ Running
  /\ cpc = "filter"
  /\ cloc.current # Nil
  /\ LET current == cloc.current
         nxt == next[current]
     IN IF usageCount[current] >= cfg.MinUsageCount
        THEN /\ usageCount' = [usageCount EXCEPT ![current] = 0]
             /\ next' = [next EXCEPT ![current] = cloc.keptHead]
             /\ cloc' = [cloc EXCEPT
                           !.keptHead = current,
                           !.keptTail = IF @ = Nil THEN current ELSE @,
                           !.current = nxt]
             /\ UNCHANGED last
        ELSE /\ next' = [next EXCEPT ![current] = Nil]
             /\ cloc' = [cloc EXCEPT !.evictedCount = @ + 1, !.current = nxt]
             /\ last' = [last EXCEPT !.evicted =
                           [o \in DOMAIN @ |-> @[o] \/ o = current]]
             /\ UNCHANGED usageCount
  /\ UNCHANGED <<cfg, numShards, allocated, pc, loc, held, shardVars, CurrentPoolLength, dirty,
                 cpc, stopClean>>

\* filterUsableObjects, one round of its loop (current != nil): an object
\* with usageCount >= MinUsageCount is reset and appended to the kept list,
\* any other object has its next cleared and is counted as evicted.
filterUsableObjects ==
  /\ Running
  /\ cpc = "filter"
  /\ cloc.current # Nil
  /\ LET current == cloc.current
         nxt == next[current]
     IN IF usageCount[current] >= cfg.MinUsageCount
        THEN /\ usageCount' = [usageCount EXCEPT ![current] = 0]
             /\ next' = IF cloc.keptHead = Nil THEN next
                        ELSE [next EXCEPT ![cloc.keptTail] = current]
             /\ cloc' = [cloc EXCEPT
                           !.keptHead = IF @ = Nil THEN current ELSE @,
                           !.keptTail = current, !.current = nxt]
             /\ UNCHANGED last
        ELSE /\ next' = [next EXCEPT ![current] = Nil]
             /\ cloc' = [cloc EXCEPT !.evictedCount = @ + 1, !.current = nxt]
             /\ last' = [last EXCEPT !.evicted =
                           [o \in DOMAIN @ |-> @[o] \/ o = current]]
             /\ UNCHANGED usageCount
  /\ UNCHANGED <<cfg, numShards, allocated, pc, loc, held, shardVars, CurrentPoolLength, dirty,
                 cpc, stopClean>>

\* filterUsableObjects after its loop (keptTail.SetNext(nil) when something
\* was kept), then cleanupShard's p.CurrentPoolLength.Add(-evictedCount)
\* when evictedCount > 0.  With nothing kept cleanupShard returns.
account ==
  /\ Running
  /\ cpc = "filter"
  /\ cloc.current = Nil
  /\ next' = IF cloc.keptHead = Nil THEN next
             ELSE [next EXCEPT ![cloc.keptTail] = Nil]
  /\ CurrentPoolLength' = CurrentPoolLength - cloc.evictedCount
  /\ IF cloc.keptHead = Nil
     THEN nextShard
     ELSE /\ cpc' = "reinsert"
          /\ cloc' = [cloc EXCEPT !.evictedCount = 0]
  /\ UNCHANGED <<callerFrame, shardVars, usageCount, dirty, stopClean>>

\* reinsertKeptObjects, the top of its loop: currentHead := shard.Head.Load();
\* if currentHead != nil { keptTail.SetNext(currentHead) }.
reinsertKeptObjectsLoad ==
  /\ Running
  /\ cpc = "reinsert"
  /\ LET currentHead == ShardHead[cloc.shard]
     IN /\ cloc' = [cloc EXCEPT !.currentHead = currentHead]
        /\ next' = IF currentHead = Nil THEN next
                   ELSE [next EXCEPT ![cloc.keptTail] = currentHead]
  /\ cpc' = "reinsert_cas"
  /\ UNCHANGED <<callerFrame, shardVars, CurrentPoolLength, usageCount, dirty,
                 stopClean>>

\* reinsertKeptObjects: shard.Head.CompareAndSwap(currentHead, keptHead);
\* a failed swap goes round the loop.
reinsertKeptObjectsCas ==
  /\ Running
  /\ cpc = "reinsert_cas"
  /\ IF ShardHead[cloc.shard] = cloc.currentHead
     THEN /\ ShardHead' = [ShardHead EXCEPT ![cloc.shard] = cloc.keptHead]
          /\ nextShard
     ELSE /\ cpc' = "reinsert"
          /\ UNCHANGED <<ShardHead, cloc>>
  /\ UNCHANGED <<callerFrame, Mutex, Cond, blockedShards, CurrentPoolLength,
                 objVars, stopClean>>

\* ---- Close and clear ------------------------------------------------------------
\* clear moves on to the next shard of its range over p.Shards; after the
\* last one Close returns.
clearNextShard(p) ==
  IF loc[p].shard + 1 \in ShardIds
  THEN /\ loc' = [loc EXCEPT ![p] = [NoLoc EXCEPT !.op = "Close",
                                       !.shard = loc[p].shard + 1]]
       /\ Goto(p, "clear_load")
       /\ UNCHANGED last
  ELSE Return(p, Nil)

\* Close: if p.cfg.Cleanup.Enabled { close(p.stopClean); ... }.  With cleanup
\* disabled Close does nothing; closing a channel that is already closed
\* panics.
Close(p) ==
  /\ Running
  /\ pc[p] = "idle"
  /\ IF ~cfg.CleanupEnabled
     THEN /\ last' = [last EXCEPT !.caller = p, !.op = "Close",
                                !.obj = Nil, !.shard = 0]
          /\ UNCHANGED <<pc, loc, stopClean>>
     ELSE IF stopClean
          THEN /\ Goto(p, "panic")
               /\ loc' = [loc EXCEPT ![p] = [NoLoc EXCEPT !.op = "Close"]]
               /\ UNCHANGED <<last, stopClean>>
          ELSE /\ stopClean' = TRUE
               /\ loc' = [loc EXCEPT ![p] = [NoLoc EXCEPT !.op = "Close"]]
               /\ Goto(p, "close_wait")
               /\ UNCHANGED last
  /\ UNCHANGED <<cfg, numShards, shardVars, CurrentPoolLength, objVars,
                 allocated, held, cpc, cloc>>

\* A faulty Close that goes on to clear without p.cleanWg.Wait().
clearWithoutWait(p) ==
  /\ Running
  /\ pc[p] = "close_wait"
  /\ Goto(p, "clear_load")
  /\ UNCHANGED <<cfg, numShards, shardVars, CurrentPoolLength, objVars,
                 allocated, loc, held, last, cleanerVars>>

\* Close: p.cleanWg.Wait() returns once the cleanup goroutine has returned;
\* p.clear() then starts on the first shard.
cleanWgWait(p) ==
  /\ Running
  /\ pc[p] = "close_wait"
  /\ cpc = "exited"
  /\ Goto(p, "clear_load")
  /\ UNCHANGED <<cfg, numShards, shardVars, CurrentPoolLength, objVars,
                 allocated, loc, held, last, cleanerVars>>

\* clear, the top of the loop on one shard: current := shard.Head.Load();
\* a nil head breaks to the next shard.
clearLoad(p) ==
  /\ Running
  /\ pc[p] = "clear_load"
  /\ LET current == ShardHead[loc[p].shard]
     IN IF current = Nil
        THEN clearNextShard(p)
        ELSE /\ loc' = [loc EXCEPT ![p].oldHead = current]
             /\ Goto(p, "clear_cas")
             /\ UNCHANGED last
  /\ UNCHANGED <<cfg, numShards, shardVars, CurrentPoolLength, objVars,
                 allocated, held, cleanerVars>>

\* clear: shard.Head.CompareAndSwap(current, nil); a lost race tries the same
\* shard again.
clearCas(p) ==
  /\ Running
  /\ pc[p] = "clear_cas"
  /\ IF ShardHead[loc[p].shard] = loc[p].oldHead
     THEN /\ ShardHead' = [ShardHead EXCEPT ![loc[p].shard] = Nil]
          /\ Goto(p, "clear_walk")
     ELSE /\ Goto(p, "clear_load")
          /\ UNCHANGED ShardHead
  /\ UNCHANGED <<cfg, numShards, Mutex, Cond, blockedShards, CurrentPoolLength,
                 objVars, allocated, loc, held, last, cleanerVars>>

\* clear, one round of the loop over the list it took (current != nil):
\* next := current.GetNext(); current.SetNext(nil); p.cfg.Cleaner(current);
\* removedCount++; current = next.
clearWalk(p) ==
  /\ Running
  /\ pc[p] = "clear_walk"
  /\ loc[p].oldHead # Nil
  /\ LET current == loc[p].oldHead
     IN /\ loc' = [loc EXCEPT ![p].oldHead = next[current],
                              ![p].removed = @ + 1]
        /\ next' = [next EXCEPT ![current] = Nil]
        /\ dirty' = [dirty EXCEPT ![current] = FALSE]
  /\ UNCHANGED <<cfg, numShards, shardVars, CurrentPoolLength, usageCount,
                 allocated, pc, held, last, cleanerVars>>

\* clear, a round of that loop in which p.cfg.Cleaner(current) panics, after
\* next := current.GetNext() and current.SetNext(nil).  Neither clear nor
\* Close recovers or defers anything, so the panic leaves both at once: it
\* ends the program, or the caller of Close recovers from it.
cleanerPanic(p) ==
  /\ Running
  /\ pc[p] = "clear_walk"
  /\ loc[p].oldHead # Nil
  /\ next' = [next EXCEPT ![loc[p].oldHead] = Nil]
  /\ \/ /\ Goto(p, "panic")
        /\ UNCHANGED <<loc, last>>
     \/ /\ Goto(p, "idle")
        /\ loc' = [loc EXCEPT ![p] = NoLoc]
        /\ last' = [last EXCEPT !.caller = p, !.op = "Close panicked",
                                 !.obj = Nil, !.shard = 0]
  /\ UNCHANGED <<cfg, numShards, shardVars, CurrentPoolLength, usageCount,
                 dirty, allocated, held, cleanerVars>>

\* clear, after that loop: p.CurrentPoolLength.Add(-removedCount) when
\* removedCount > 0, then break to the next shard.
clearAccount(p) ==
  /\ Running
  /\ pc[p] = "clear_walk"
  /\ loc[p].oldHead = Nil
  /\ CurrentPoolLength' = CurrentPoolLength - loc[p].removed
  /\ clearNextShard(p)
  /\ UNCHANGED <<cfg, numShards, shardVars, objVars, allocated, held,
                 cleanerVars>>

\* ---- the callers' use of an object ---------------------------------------------
\* A caller writes the user fields of an object it holds (what the Cleaner
\* of the next Put resets).
Use(p) ==
  /\ Running
  /\ pc[p] = "idle"
  /\ \E o \in held[p] :
       /\ ~dirty[o]
       /\ dirty' = [dirty EXCEPT ![o] = TRUE]
  /\ UNCHANGED <<cfg, numShards, shardVars, CurrentPoolLength, next, usageCount,
                 allocated, callerVars, cleanerVars>>

\* ---- specifications --------------------------------------------------------------
\* One step of a Get or GetBlock in progress that has not started to block.
ContinueGet(p) ==
  \/ rfsLoad(p) \/ rfsNext(p) \/ rfsCas(p) \/ incrementAndReturn(p)
  \/ growth(p) \/ alloc(p)

\* One step of a Put or PutBlock in progress, up to the SetNext after the swap.
ContinuePut(p) == putLoad(p) \/ putCas(p) \/ putSetNext(p)

\* One step of the blocking handshake of GetBlock and PutBlock.
ContinueBlock(p) ==
  \/ getMostBlockedShard(p) \/ signal(p)
  \/ blockedAdd(p) \/ mutexLock(p) \/ condWait(p)

\* One step of a Close in progress.
ContinueClose(p) ==
  \/ cleanWgWait(p) \/ clearLoad(p) \/ clearCas(p) \/ clearWalk(p)
  \/ clearAccount(p)

\* One step of a cleanup pass in progress.
Pass ==
  \/ tryTakeOwnershipLoad \/ tryTakeOwnershipCas
  \/ filterUsableObjects \/ account
  \/ reinsertKeptObjectsLoad \/ reinsertKeptObjectsCas

\* The counters of the pool only ever grow under Get and GetBlock.  The
\* specifications bound them: a call that can raise a usage count starts
\* only while every count is below the bound, and GetBlock starts only while
\* every blocked counter is below MaxBlocked.
UsageBelow(k) == \A o \in Obj : usageCount[o] < k

BlockedBounded == \A s \in DOMAIN blockedShards : blockedShards[s] < MaxBlocked

\* The configurations tried.  MinUsageCount is never read without cleanup,
\* nor MaxPoolSize without growth control: one value stands for all.
PoolConfigs ==
  {c \in Configs : /\ ~c.CleanupEnabled => c.MinUsageCount = 1
                   /\ ~c.GrowthEnable => c.MaxPoolSize = 1}

NoCleanupConfigs == {c \in PoolConfigs : ~c.CleanupEnabled}

\* Concurrent callers of Get and Put on a pool that grows freely and has no
\* cleanup: every interleaving of their steps, with at most ConcObj objects
\* allocated.
InitGetPut ==
  \E c \in NoCleanupConfigs : ~c.GrowthEnable /\ NewPoolWithConfig(c)

NextGetPut ==
  \E p \in Caller :
    \/ UsageBelow(ConcUsage) /\ Get(p)
    \/ Put(p)
    \/ Use(p)
    \/ rfsLoad(p) \/ rfsNext(p) \/ rfsCas(p) \/ incrementAndReturn(p)
    \/ growth(p)
    \/ allocated < ConcObj /\ alloc(p)
    \/ ContinuePut(p)

SpecGetPut == InitGetPut /\ [][NextGetPut]_vars

\* Concurrent callers of Get and GetBlock on a pool with a growth ceiling
\* into which nothing is put back: every interleaving of their steps.
InitGrow ==
  \E c \in NoCleanupConfigs : c.GrowthEnable /\ NewPoolWithConfig(c)

NextGrow ==
  \E p \in Caller :
    \/ UsageBelow(MaxUsage) /\ Get(p)
    \/ UsageBelow(MaxUsage) /\ BlockedBounded /\ GetBlock(p)
    \/ growth(p) \/ alloc(p)
    \/ blockedAdd(p) \/ mutexLock(p) \/ rfsLoad(p) \/ condWait(p)

SpecGrow == InitGrow /\ [][NextGrow]_vars

\* Sequential use of Get and Put with cleanup passes in between: a call
\* starts only while no other call and no cleanup pass is under way, and a
\* cleanup pass starts only while no call is under way.  No swap then fails,
\* so no loop goes round a second time.
OthersQuiet(p) == \A q \in Caller \ {p} : pc[q] \in {"idle", "parked"}

AllQuiet == \A q \in Caller : pc[q] \in {"idle", "parked"}

NoPass == cpc \in {"none", "select", "exited"}

InitSeq == \E c \in PoolConfigs : NewPoolWithConfig(c)

NextSeq ==
  \/ \E p \in Caller :
       \/ OthersQuiet(p) /\ NoPass /\ UsageBelow(MaxUsage) /\ Get(p)
       \/ OthersQuiet(p) /\ NoPass /\ Put(p)
       \/ rfsNext(p) \/ rfsCas(p) \/ incrementAndReturn(p)
       \/ growth(p) \/ alloc(p)
       \/ putCas(p) \/ putSetNext(p)
  \/ AllQuiet /\ tick
  \/ Pass

SpecSeq == InitSeq /\ [][NextSeq]_vars

\* The blocking handshake on its own: callers use GetBlock and PutBlock only,
\* one call at a time, on a pool with a growth ceiling and no cleanup.  A
\* goroutine that is in the middle of a call keeps being scheduled.
InitBlock ==
  \E c \in NoCleanupConfigs : c.GrowthEnable /\ NewPoolWithConfig(c)

ContinueAny(p) == ContinueGet(p) \/ ContinuePut(p) \/ ContinueBlock(p)

NextBlock ==
  \E p \in Caller :
    \/ /\ OthersQuiet(p)
       /\ UsageBelow(BlockUsage)
       /\ BlockedBounded
       /\ GetBlock(p)
    \/ OthersQuiet(p) /\ PutBlock(p)
    \/ ContinueAny(p)

SpecBlock ==
  /\ InitBlock
  /\ [][NextBlock]_vars
  /\ \A p \in Caller : WF_vars(ContinueAny(p))

\* The blocking handshake with plain Puts beside it: callers use GetBlock,
\* PutBlock and Put, one call at a time, on a pool with a growth ceiling and
\* no cleanup.  A goroutine that is in the middle of a call keeps being
\* scheduled.
NextBlockPut ==
  \E p \in Caller :
    \/ /\ OthersQuiet(p)
       /\ UsageBelow(BlockUsage)
       /\ BlockedBounded
       /\ GetBlock(p)
    \/ OthersQuiet(p) /\ PutBlock(p)
    \/ OthersQuiet(p) /\ Put(p)
    \/ ContinueAny(p)

SpecBlockPut ==
  /\ InitBlock
  /\ [][NextBlockPut]_vars
  /\ \A p \in Caller : WF_vars(ContinueAny(p))

\* GetBlock and PutBlock with every interleaving of the callers' steps on a
\* pool of one shard with a ceiling of one object, so that callers meet at
\* the shard's mutex.  A goroutine that is in the middle of a call keeps
\* being scheduled.
NextMutex ==
  \E p \in Caller :
    \/ UsageBelow(BlockUsage) /\ BlockedBounded /\ GetBlock(p)
    \/ PutBlock(p)
    \/ ContinueAny(p)

InitMutex ==
  \E c \in NoCleanupConfigs :
    c.n = 1 /\ c.GrowthEnable /\ c.MaxPoolSize = 1 /\ NewPoolWithConfig(c)

SpecMutex ==
  /\ InitMutex
  /\ [][NextMutex]_vars
  /\ \A p \in Caller : WF_vars(ContinueAny(p))

\* The life of a pool up to and beyond Close: Get, Put and Close, one call
\* at a time, of at most ConcObj objects, beside the cleanup goroutine.  A
\* Close may be called while a cleanup pass is under way, and the ticker may
\* fire while the Close waits for the goroutine.  Every goroutine that can
\* take a step keeps being scheduled, and a select that is offered the
\* closed stopClean channel again and again takes it in the end.
CloseQuiet == \A q \in Caller : pc[q] \in {"idle", "parked", "close_wait"}

InitClose == \E c \in PoolConfigs : NewPoolWithConfig(c)

ContinueSeq(p) ==
  \/ rfsNext(p) \/ rfsCas(p) \/ incrementAndReturn(p)
  \/ growth(p)
  \/ allocated < ConcObj /\ alloc(p)
  \/ putCas(p) \/ putSetNext(p)
  \/ ContinueClose(p)

NextClose ==
  \/ \E p \in Caller :
       \/ OthersQuiet(p) /\ NoPass /\ UsageBelow(MaxUsage) /\ Get(p)
       \/ OthersQuiet(p) /\ NoPass /\ Put(p)
       \/ OthersQuiet(p) /\ Close(p)
       \/ ContinueSeq(p)
  \/ CloseQuiet /\ tick
  \/ Pass
  \/ cleanerExit

SpecClose ==
  /\ InitClose
  /\ [][NextClose]_vars
  /\ \A p \in Caller : WF_vars(ContinueSeq(p))
  /\ WF_vars(Pass)
  /\ SF_vars(cleanerExit)

\* Concurrent callers of GetN and PutN, and so of the Get and Put calls
\* these make (GetN(1) does what Get does, PutN of one object what Put
\* does), on a pool with a growth ceiling and no cleanup: every
\* interleaving of their steps.  The ceiling
\* is low enough for the Allocator never to run out of objects (every
\* caller but one may allocate past the ceiling).
InitBatch ==
  \E c \in NoCleanupConfigs :
    /\ c.GrowthEnable
    /\ c.MaxPoolSize + NumCallers <= BatchObj + 1
    /\ NewPoolWithConfig(c)

ContinueBatch(p) ==
  \/ getNLoop(p) \/ putNLoop(p)
  \/ rfsLoad(p) \/ rfsNext(p) \/ rfsCas(p) \/ incrementAndReturn(p)
  \/ growth(p) \/ alloc(p)
  \/ ContinuePut(p)

NextBatch ==
  \E p \in Caller :
    \/ UsageBelow(BatchUsage) /\ GetN(p)
    \/ PutN(p)
    \/ ContinueBatch(p)

SpecBatch == InitBatch /\ [][NextBatch]_vars

\* The same callers on a pool with ShardNumOverride = 1, where every call
\* works on the one shard.  A goroutine that is in the middle of a call
\* keeps being scheduled.
InitStack ==
  \E c \in NoCleanupConfigs :
    /\ c.n = 1
    /\ c.GrowthEnable
    /\ c.MaxPoolSize + NumCallers <= BatchObj + 1
    /\ NewPoolWithConfig(c)

SpecStack ==
  /\ InitStack
  /\ [][NextBatch]_vars
  /\ \A p \in Caller : WF_vars(ContinueBatch(p))

\* Close with a Cleaner that may panic: Get, Put and Close, one call at a
\* time, on a pool with cleanup whose ticker does not fire before the Close.
InitAbort ==
  \E c \in PoolConfigs : c.CleanupEnabled /\ NewPoolWithConfig(c)

NextAbort ==
  \/ \E p \in Caller :
       \/ OthersQuiet(p) /\ UsageBelow(MaxUsage) /\ Get(p)
       \/ OthersQuiet(p) /\ Put(p)
       \/ OthersQuiet(p) /\ Close(p)
       \/ ContinueSeq(p)
       \/ cleanerPanic(p)
  \/ cleanerExit

SpecAbort == InitAbort /\ [][NextAbort]_vars

\* Concurrent callers of Get and Put under a scheduler that lets no other
\* goroutine run between the swap of a Put and its SetNext: the steps of the
\* Gets interleave freely with each other and with whole Puts.
NoPutInProgress ==
  \A q \in Caller : pc[q] \notin {"put_load", "put_cas", "put_setnext"}

NextWholePut ==
  \E p \in Caller :
    \/ NoPutInProgress /\ UsageBelow(ConcUsage) /\ Get(p)
    \/ NoPutInProgress /\ Put(p)
    \/ NoPutInProgress /\ rfsLoad(p)
    \/ NoPutInProgress /\ rfsNext(p)
    \/ NoPutInProgress /\ rfsCas(p)
    \/ NoPutInProgress /\ incrementAndReturn(p)
    \/ NoPutInProgress /\ growth(p)
    \/ NoPutInProgress /\ allocated < ConcObj /\ alloc(p)
    \/ putCas(p) \/ putSetNext(p)

SpecWholePut == InitGetPut /\ [][NextWholePut]_vars

\* Get and Put, one call at a time, on a pool without growth limit and
\* cleanup, in a program that constructs other pools while this one is in
\* use (each with a ShardNumOverride of its own, 0 for none).
NextPools ==
  \/ \E p \in Caller :
       \/ OthersQuiet(p) /\ UsageBelow(MaxUsage) /\ Get(p)
       \/ OthersQuiet(p) /\ Put(p)
       \/ rfsNext(p) \/ rfsCas(p) \/ incrementAndReturn(p)
       \/ growth(p)
       \/ allocated < ConcObj /\ alloc(p)
       \/ putCas(p) \/ putSetNext(p)
  \/ \E m \in 0 .. MaxShards : getShardCount(m)

SpecPools == InitGetPut /\ [][NextPools]_vars

\* Get and Put by PassCallers goroutines, one call at a time, beside the
\* cleanup goroutine: the ticker fires at any moment and the steps of a
\* cleanup pass interleave freely with the steps of the call in progress; at
\* most ConcObj objects are allocated.  The pool has one shard and grows
\* freely.  The pool is followed up to the first visible damage: no call
\* and no pass starts once a list does not end in nil, an object in a
\* caller's hands is on a list, or CurrentPoolLength is below 0 (what is
\* under way goes on); a pass that has evicted MaxObj objects from one list
\* goes no further.  The observer notes evictions and does not count Gets.
RECURSIVE ListEnds(_, _)
ListEnds(h, seen) ==
  IF h = Nil THEN TRUE
  ELSE IF h \in seen THEN FALSE
  ELSE ListEnds(next[h], seen \cup {h})

Intact ==
  /\ \A s \in ShardIds : ListEnds(ShardHead[s], {})
  /\ AllHeld \cap AllResident = {}
  /\ CurrentPoolLength >= 0

InitPass ==
  \E c \in PoolConfigs :
    /\ c.n = 1
    /\ ~c.GrowthEnable
    /\ c.CleanupEnabled
    /\ PoolBuilt(c)
    /\ last = [NoLast EXCEPT !.gets = <<>>,
                             !.evicted = [o \in Obj |-> FALSE]]

NextPass ==
  \/ \E p \in 1 .. PassCallers :
       \/ Intact /\ OthersQuiet(p) /\ UsageBelow(MaxUsage) /\ Get(p)
       \/ Intact /\ OthersQuiet(p) /\ Put(p)
       \/ rfsLoad(p) \/ rfsNext(p) \/ rfsCas(p) \/ incrementAndReturn(p)
       \/ growth(p)
       \/ allocated < ConcObj /\ alloc(p)
       \/ ContinuePut(p)
  \/ Intact /\ tick
  \/ tryTakeOwnershipLoad \/ tryTakeOwnershipCas
  \/ cloc.evictedCount < MaxObj /\ filterUsableObjects
  \/ account
  \/ reinsertKeptObjectsLoad \/ reinsertKeptObjectsCas

SpecPass == InitPass /\ [][NextPass]_vars

\* The same on a pool of two shards, where a pass that is done with the
\* first shard has a second one to go to.  MinUsageCount is 1, Get is
\* called only while every usage count is below SkipUsage, and the observer
\* notes nothing.
InitSkip ==
  \E c \in PoolConfigs :
    /\ c.n = MaxShards
    /\ ~c.GrowthEnable
    /\ c.CleanupEnabled
    /\ c.MinUsageCount = 1
    /\ PoolBuilt(c)
    /\ last = [NoLast EXCEPT !.gets = <<>>]

NextSkip ==
  \/ \E p \in 1 .. PassCallers :
       \/ Intact /\ OthersQuiet(p) /\ UsageBelow(SkipUsage) /\ Get(p)
       \/ Intact /\ OthersQuiet(p) /\ Put(p)
       \/ rfsLoad(p) \/ rfsNext(p) \/ rfsCas(p) \/ incrementAndReturn(p)
       \/ growth(p)
       \/ allocated < ConcObj /\ alloc(p)
       \/ ContinuePut(p)
  \/ Intact /\ tick
  \/ tryTakeOwnershipLoad \/ tryTakeOwnershipCas
  \/ cloc.evictedCount < MaxObj /\ filterUsableObjects
  \/ account
  \/ reinsertKeptObjectsLoad \/ reinsertKeptObjectsCas

SpecSkip == InitSkip /\ [][NextSkip]_vars

\* The same calls and cleanup passes with every Put running from its load
\* to its SetNext uninterrupted: while a Put is under way nothing else takes
\* a step.
NextPassWholePut ==
  \/ \E p \in 1 .. PassCallers :
       \/ NoPutInProgress /\ Intact /\ OthersQuiet(p) /\ UsageBelow(MaxUsage)
            /\ Get(p)
       \/ NoPutInProgress /\ Intact /\ OthersQuiet(p) /\ Put(p)
       \/ NoPutInProgress /\ rfsLoad(p)
       \/ NoPutInProgress /\ rfsNext(p)
       \/ NoPutInProgress /\ rfsCas(p)
       \/ NoPutInProgress /\ incrementAndReturn(p)
       \/ NoPutInProgress /\ growth(p)
       \/ NoPutInProgress /\ allocated < ConcObj /\ alloc(p)
       \/ putCas(p)
       \/ putSetNext(p)
  \/ NoPutInProgress /\ Intact /\ tick
  \/ NoPutInProgress /\ tryTakeOwnershipLoad
  \/ NoPutInProgress /\ tryTakeOwnershipCas
  \/ NoPutInProgress /\ cloc.evictedCount < MaxObj /\ filterUsableObjects
  \/ NoPutInProgress /\ account
  \/ NoPutInProgress /\ reinsertKeptObjectsLoad
  \/ NoPutInProgress /\ reinsertKeptObjectsCas

SpecPassWholePut == InitPass /\ [][NextPassWholePut]_vars

\* The life of a pool with cleanup whose callers write to the objects they
\* hold: Get, Put, Close and the use of a held object, one call at a time,
\* with cleanup passes in between.
InitClean == \E c \in PoolConfigs : c.CleanupEnabled /\ NewPoolWithConfig(c)

NextClean ==
  \/ \E p \in Caller :
       \/ OthersQuiet(p) /\ NoPass /\ UsageBelow(MaxUsage) /\ Get(p)
       \/ OthersQuiet(p) /\ NoPass /\ Put(p)
       \/ OthersQuiet(p) /\ Close(p)
       \/ OthersQuiet(p) /\ NoPass /\ Use(p)
       \/ ContinueSeq(p)
  \/ CloseQuiet /\ tick
  \/ Pass
  \/ cleanerExit

SpecClean == InitClean /\ [][NextClean]_vars

\* Construction on its own: a caller passes any configuration to
\* NewPoolWithConfig.
InitNew == \E c \in AnyConfigs : NoPool(c)

NextNew == \E p \in Caller : New(p) \/ newPool(p) \/ newCleaner(p)

SpecNew == InitNew /\ [][NextNew]_vars

\* ---- properties -------------------------------------------------------------------
\* The chain of next links from object h ends in nil without meeting an
\* object twice.
RECURSIVE EndsInNil(_, _)
EndsInNil(h, seen) ==
  \/ h = Nil
  \/ h \notin seen /\ EndsInNil(next[h], seen \cup {h})

RECURSIVE SumOver(_, _)
SumOver(f, S) ==
  IF S = {} THEN 0
  ELSE LET x == CHOOSE y \in S : TRUE IN f[x] + SumOver(f, S \ {x})

\* The handles callers hold: every object counted once for each holder.
Outstanding == SumOver([p \in Caller |-> Cardinality(held[p])], Caller)

Quiescent == (\A p \in Caller : pc[p] = "idle") /\ NoPass

\* C1: under any interleaving of Get and Put calls in which a caller puts
\* only an object it holds, once per acquisition, no object is held by two
\* callers at the same time.
C1_NoObjectHeldTwice ==
  \A p, q \in Caller : p # q => held[p] \cap held[q] = {}

\* C2: in every reachable state the objects reachable from each shard head
\* form an acyclic list that ends in nil, and no object is reachable from
\* two shard heads.
C2_ListsWellFormed ==
  /\ \A s \in ShardIds : EndsInNil(ShardHead[s], {})
  /\ \A s, r \in ShardIds : s # r => Resident(s) \cap Resident(r) = {}

\* C3: whenever no call and no cleanup pass is in progress, the objects
\* resident on the shard lists plus the handles held by callers number
\* CurrentPoolLength.
C3_LengthAccountsForObjects ==
  Quiescent => Cardinality(AllResident) + Outstanding = CurrentPoolLength

\* C4: with growth enabled CurrentPoolLength never exceeds MaxPoolSize.
C4_LengthWithinMax ==
  cfg.GrowthEnable => CurrentPoolLength <= cfg.MaxPoolSize

\* C7: a GetBlock that finds the growth ceiling reached and its shard empty
\* suspends, and only such a GetBlock does: it is in the blocking path only
\* with growth enabled and CurrentPoolLength at MaxPoolSize (the length never
\* falls in a pool without cleanup), it reaches Cond.Wait only after
\* retrieveFromShard found the shard empty, it never ends in any other way
\* than by returning, and what it returns is never nil.
InBlockingPath(p) ==
  \/ pc[p] \in {"blk_add", "lock", "wait", "parked", "relock"}
  \/ Mutex[loc[p].shard] = p

C7_GetBlockSuspendsIffExhausted ==
  /\ \A p \in Caller :
       loc[p].op = "GetBlock" =>
         /\ pc[p] # "panic"
         /\ InBlockingPath(p) =>
              cfg.GrowthEnable /\ CurrentPoolLength >= cfg.MaxPoolSize
         /\ pc[p] \in {"wait", "parked"} => loc[p].oldHead = Nil
  /\ last.op = "GetBlock" => last.obj # Nil

\* C10: an object that a caller holds has next = nil and a usage count of at
\* least 1, from the moment Get or GetBlock returns it.
C10_HeldObjectsUnlinked ==
  \A p \in Caller : \A o \in held[p] : next[o] = Nil /\ usageCount[o] >= 1

\* The call of caller p returns in this step.
Returns(p) == pc[p] # "idle" /\ pc'[p] = "idle"

\* PutBlock has just been called by q: getMostBlockedShard has not read any
\* counter yet.
PutBlockCalled(q) ==
  pc[q] = "gmb_scan" /\ loc[q].scan = DOMAIN blockedShards

BlockedTotal == SumOver(blockedShards, DOMAIN blockedShards)

\* Another caller than w consumes an object: its GetBlock has popped one.
CompetingConsumer(w) ==
  \E c \in Caller \ {w} : loc[c].op = "GetBlock" /\ pc[c] = "inc"

\* C5: a caller that is parked in GetBlock when another caller calls
\* PutBlock eventually returns, unless a third party consumes an object in
\* the meantime (callers use GetBlock and PutBlock only, there is no Close,
\* and a goroutine in the middle of a call keeps being scheduled).
C5_SuspendedCallerReturns ==
  \A w, q \in Caller :
    (pc[w] = "parked" /\ PutBlockCalled(q))
      ~> (pc[w] = "idle" \/ CompetingConsumer(w))

\* C6: when the only caller that has blocked so far is parked in GetBlock
\* and another caller calls PutBlock(a) with nothing else going on, the
\* object is pushed onto the shard the waiter waits on, and the waiter wakes
\* and returns a.
C6_HandoffToSoleWaiter ==
  /\ [](\A w, q \in Caller :
          /\ pc[w] = "parked"
          /\ BlockedTotal = 1
          /\ loc[q].op = "PutBlock"
          /\ pc[q] \in {"put_load", "put_cas", "put_setnext", "signal"}
          => loc[q].shard = loc[w].shard)
  /\ \A w, q \in Caller : \A a \in Obj :
       (pc[w] = "parked" /\ BlockedTotal = 1 /\ PutBlockCalled(q)
          /\ loc[q].obj = a)
       ~> (last.caller = w /\ last.op = "GetBlock" /\ last.obj = a)

\* The waiter of C6 has been handed the object: it was the only caller to
\* have blocked, and its GetBlock returned the object of the PutBlock.
C6_Witness ==
  /\ BlockedTotal = 1
  /\ last.op = "GetBlock"
  /\ last.obj # Nil
  /\ usageCount[last.obj] = 2
  /\ \A p \in Caller : pc[p] = "idle"

\* The objects that were on the shard of p's Get when it was called: those
\* resident now and the one the Get has popped.
Popped(p) == IF pc[p] = "inc" THEN {loc[p].obj} ELSE {}

AtCeiling == cfg.GrowthEnable /\ CurrentPoolLength >= cfg.MaxPoolSize

C9_PutThenGetReuses ==
  [][\A p \in Caller :
       loc[p].op = "Get" /\ Returns(p) =>
         /\ cfg.n = 1 /\ last.op = "Put" =>
              /\ last'.obj = last.obj
              /\ usageCount'[last.obj] = usageCount[last.obj] + 1
         /\ pc[p] = "alloc" => usageCount'[last'.obj] = 1]_vars

\* On a single-shard pool a Get that follows a Put has popped the object
\* that was put and is about to return it.
C9_Witness ==
  /\ cfg.n = 1
  /\ last.op = "Put"
  /\ \E p \in Caller :
       pc[p] = "inc" /\ loc[p].op = "Get" /\ loc[p].obj = last.obj

\* C11: Put runs the Cleaner on the object before the object can be reached
\* from a shard head, so that a Get which pops an object from a shard list
\* returns it in the cleaned state: no user field written since the Cleaner
\* ran.
C11_GetObservesCleanedObject ==
  [][\A p \in Caller :
       pc[p] = "inc" /\ Returns(p) => ~dirty[loc[p].obj]]_vars

\* The objects of the list the cleanup pass detached that had a usage count
\* of at least MinUsageCount when it was detached, and the others.
DetachedUsed == {o \in DOMAIN cloc.detached : cloc.detached[o] >= cfg.MinUsageCount}

DetachedUnused == DOMAIN cloc.detached \ DetachedUsed

\* cleanupShard returns in this step.
ShardPassEnds == cpc \in {"filter", "reinsert_cas"} /\ cpc' \in {"take", "select"}

\* C12: when cleanupShard returns after detaching a list (no call running
\* meanwhile), the shard holds exactly the detached objects that had a usage
\* count >= MinUsageCount, each with usage count 0, the other detached
\* objects are on no shard, and the step that accounts for the pass lowers
\* CurrentPoolLength by the number of those other objects.
C12_PassKeepsUsedEvictsUnused ==
  [][/\ ShardPassEnds /\ cloc.detached # <<>> =>
          /\ \A s \in ShardIds : s = cloc.shard => Resident(s)' = DetachedUsed
          /\ \A o \in DetachedUsed : usageCount'[o] = 0
          /\ DetachedUnused \cap AllResident' = {}
     /\ cpc = "filter" /\ cloc.current = Nil =>
          CurrentPoolLength' = CurrentPoolLength - Cardinality(DetachedUnused)]_vars

\* A cleanup pass is about to put back the objects it kept, after it
\* detached a list with an object to keep and an object to evict.
C12_Witness ==
  /\ cpc = "reinsert_cas"
  /\ DetachedUsed # {}
  /\ DetachedUnused # {}

\* C13: an object that has been in the pool for the whole window between
\* two cleanup passes and that Get has returned fewer than MinUsageCount
\* times in that window is evicted when the pass that ends the window
\* comes to it.
C13_UnusedInCycleEvicted ==
  [][cpc = "filter" /\ cloc.current # Nil =>
       LET c == cloc.current
       IN 0 <= cloc.window[c] /\ cloc.window[c] < cfg.MinUsageCount =>
            cloc'.evictedCount = cloc.evictedCount + 1]_vars

\* The detached objects that a pass has kept before and that no Get has
\* returned since: their usage count is still the 0 of the reset.
DetachedIdle == {o \in DOMAIN cloc.detached : cloc.detached[o] = 0}

\* C14 as claimed: an object that was put back with a usage count >=
\* MinUsageCount and then left idle is resident with usage count 0 after
\* the first cleanup pass and after every later one.
C14_IdleObjectStaysResident ==
  [][ShardPassEnds =>
       \A s \in ShardIds : s = cloc.shard =>
         /\ DetachedUsed \subseteq Resident(s)'
         /\ DetachedIdle \subseteq Resident(s)'
         /\ \A o \in DetachedUsed \cup DetachedIdle : usageCount'[o] = 0]_vars

\* C14 as amended: an object that was put back with a usage count >=
\* MinUsageCount and then left idle is resident with usage count 0 after
\* the first cleanup pass, and the second pass, which finds it with usage
\* count 0, evicts it: it is on no shard afterwards and its usage count is
\* still 0.
C14_IdleObjectEvictedBySecondPass ==
  [][ShardPassEnds =>
       \A s \in ShardIds : s = cloc.shard =>
         /\ DetachedUsed \subseteq Resident(s)'
         /\ DetachedIdle \cap AllResident' = {}
         /\ \A o \in DetachedUsed \cup DetachedIdle : usageCount'[o] = 0]_vars

\* A second pass has gone through a detached list with an object that an
\* earlier pass had kept and that no Get has returned since.
C14_Witness ==
  /\ cpc = "filter"
  /\ cloc.current = Nil
  /\ DetachedIdle # {}
  /\ \E o \in DetachedIdle : cloc.window[o] = 0

CloseCalled(p) ==
  /\ pc[p] = "idle"
  /\ \/ pc'[p] \in {"close_wait", "panic"} /\ loc'[p].op = "Close"
     \/ pc'[p] = "idle" /\ last' # last /\ last'.op = "Close" /\ last'.caller = p

\* C16: a Close that is called after a Close has returned (with cleanup
\* enabled stopClean is closed by then; with cleanup disabled Close never
\* does anything) returns at once and changes nothing in the pool.
C16_SecondCloseIsNoOp ==
  [][\A p \in Caller :
       CloseCalled(p) /\ (stopClean \/ ~cfg.CleanupEnabled) =>
         /\ pc'[p] = "idle"
         /\ UNCHANGED <<shardVars, CurrentPoolLength, objVars, cleanerVars>>]_vars

\* C17: when Close has returned and no call is in progress, every shard
\* list is empty, every object that is not in a caller's hands has been
\* through the Cleaner, and CurrentPoolLength counts the objects in callers'
\* hands only.
C17_CloseDrainsPool ==
  last.op = "Close" /\ AllQuiet =>
    /\ AllResident = {}
    /\ \A o \in (1 .. allocated) \ AllHeld : ~dirty[o]
    /\ CurrentPoolLength = Outstanding

\* The first Close of a pool with cleanup has got past p.cleanWg.Wait():
\* stopClean is closed and no caller waits for the goroutine.
PastCleanWgWait == stopClean /\ \A p \in Caller : pc[p] # "close_wait"

\* C18: with cleanup enabled a Close that waits for the cleanup goroutine
\* eventually returns; once it is past the wait the goroutine has exited,
\* it stays exited, and every later change of a shard list, a usage count
\* or CurrentPoolLength is a step of a caller's call.
C18_CloseStopsCleaner ==
  /\ \A p \in Caller : (pc[p] = "close_wait") ~> (pc[p] = "idle")
  /\ [](PastCleanWgWait => cpc = "exited")
  /\ [][PastCleanWgWait =>
          /\ cpc' = cpc /\ cloc' = cloc
          /\ <<ShardHead, next, usageCount, CurrentPoolLength>>'
                # <<ShardHead, next, usageCount, CurrentPoolLength>>
               => \E p \in Caller : pc[p] # "idle" \/ pc'[p] # "idle"]_vars

\* With cleanup enabled a Close has returned after a cleanup pass had kept
\* an object, which the Close then drained.
C18_Witness ==
  /\ cfg.CleanupEnabled
  /\ last.op = "Close"
  /\ cpc = "exited"
  /\ \A p \in Caller : pc[p] = "idle"
  /\ \E o \in 1 .. allocated : usageCount[o] = 0 /\ o \notin AllHeld

\* NewPoolWithConfig has returned.
Constructed == last.op = "NewPoolWithConfig"

\* C19: NewPoolWithConfig returns no pool and ErrNoAllocator for a nil
\* allocator, no pool and ErrNoCleaner for a nil cleaner, no pool and an
\* error for cleanup enabled with Interval <= 0 or MinUsageCount <= 0; no
\* cleanup goroutine runs before the validation is over or after a failure;
\* with cleanup disabled Interval and MinUsageCount are not looked at.
C19_InvalidConfigRejected ==
  /\ (\E p \in Caller : pc[p] \in {"new", "new_cleanup"}) => cpc = "none"
  /\ Constructed =>
       LET pool == last.new.pool
           err == last.new.err
       IN /\ pool <=> err = "nil"
          /\ ~pool => cpc = "none"
          /\ ~cfg.Allocator => ~pool /\ err = "ErrNoAllocator"
          /\ cfg.Allocator /\ ~cfg.Cleaner => ~pool /\ err = "ErrNoCleaner"
          /\ /\ cfg.Allocator /\ cfg.Cleaner /\ cfg.CleanupEnabled
             /\ (cfg.Interval <= 0 \/ cfg.MinUsageCount <= 0)
             => ~pool /\ err \notin {"nil", "ErrNoAllocator", "ErrNoCleaner"}
          /\ cfg.Allocator /\ cfg.Cleaner /\ ~cfg.CleanupEnabled => pool

\* NewPoolWithConfig has refused a configuration with cleanup enabled and an
\* Interval of 0 (allocator, cleaner and MinUsageCount being fine).
C19_Witness ==
  /\ Constructed
  /\ cfg.Allocator /\ cfg.Cleaner /\ cfg.CleanupEnabled
  /\ cfg.Interval = 0 /\ cfg.MinUsageCount > 0
  /\ ~last.new.pool

\* C20: NewPoolWithConfig returns no pool and an error for a configuration
\* with growth enabled and MaxPoolSize <= 0.
C20_NonPositiveMaxPoolSizeRejected ==
  Constructed /\ cfg.GrowthEnable /\ cfg.MaxPoolSize <= 0 =>
    ~last.new.pool /\ last.new.err # "nil"

\* The Get that GetN called returns into GetN's loop in this step.
InnerGetReturns(p) ==
  loc[p].outer = "GetN" /\ pc[p] # "getn_loop" /\ pc'[p] = "getn_loop"

\* What the Get of caller p returns when it returns in this step: the
\* object it popped, the object the Allocator hands out, or nil.
GetResult(p) ==
  CASE pc[p] = "inc" -> loc[p].obj
    [] pc[p] = "alloc" -> allocated'
    [] OTHER -> Nil

\* C21: GetN(n) returns a slice of exactly n entries whose i-th entry is
\* what the i-th of n successive Get calls returned, nil included: the
\* slice has n entries from the start, each Get that returns fills the next
\* entry with its result and leaves the others alone, entries not yet
\* reached are nil, nothing else writes the slice, and GetN returns it
\* after the n-th Get.
C21_GetNReturnsEveryResult ==
  /\ [](\A p \in Caller :
          loc[p].outer = "GetN" =>
            /\ Len(loc[p].objs) = loc[p].n
            /\ loc[p].i <= loc[p].n
            /\ \A k \in (loc[p].i + 1) .. loc[p].n : loc[p].objs[k] = Nil)
  /\ [][\A p \in Caller :
          /\ InnerGetReturns(p) =>
               /\ loc'[p].i = loc[p].i + 1
               /\ loc'[p].objs[loc'[p].i] = GetResult(p)
               /\ GetResult(p) # Nil => GetResult(p) \in held'[p]
               /\ \A k \in 1 .. loc[p].n :
                    k # loc'[p].i => loc'[p].objs[k] = loc[p].objs[k]
          /\ loc[p].outer = "GetN" /\ ~InnerGetReturns(p) /\ pc'[p] # "idle"
               => loc'[p].objs = loc[p].objs
          /\ loc[p].outer = "GetN" /\ pc'[p] = "idle" =>
               /\ loc[p].i = loc[p].n
               /\ last'.caller = p /\ last'.op = "GetN"
               /\ last'.objs = loc[p].objs]_vars

\* A GetN(2) has returned a slice whose first entry is nil (the Get was
\* growth-limited) and whose second entry is an object.
C21_Witness ==
  /\ last.op = "GetN"
  /\ Len(last.objs) = 2
  /\ last.objs[1] = Nil
  /\ last.objs[2] # Nil

\* Caller q's swap of the head of shard s succeeds in this step.
CasSucceeds(q, s) ==
  /\ loc[q].shard = s
  /\ \/ pc[q] = "rfs_cas" /\ pc'[q] = "inc"
     \/ pc[q] = "put_cas" /\ pc'[q] = "put_setnext"

\* Caller p is between the Head.Load of a loop round and the swap of that
\* round.
BeforeCas(p) == pc[p] \in {"rfs_next", "rfs_cas", "put_cas"}

\* C22: Get, Put, GetN and PutN never wait on a mutex or a condition; the
\* head that a caller loaded is still the head at its swap unless another
\* caller's swap on that shard succeeded in between, and the swap fails only
\* if the head is another one by then; every call returns (the calls of the
\* other callers being finitely many), all callers working on the single
\* shard of a pool with ShardNumOverride = 1.
C22_LockFreeProgress ==
  /\ [](/\ \A p \in Caller :
            pc[p] \notin {"blk_add", "lock", "wait", "parked", "relock", "panic"}
         /\ \A s \in ShardIds : Mutex[s] = NoCaller /\ Cond[s] = <<>>)
  /\ [][\A p \in Caller :
          /\ /\ BeforeCas(p)
             /\ ShardHead[loc[p].shard] = loc[p].oldHead
             /\ ShardHead'[loc[p].shard] # loc[p].oldHead
             => \/ CasSucceeds(p, loc[p].shard)
                \/ \E q \in Caller \ {p} : CasSucceeds(q, loc[p].shard)
          /\ \/ pc[p] = "rfs_cas" /\ pc'[p] = "rfs_load"
             \/ pc[p] = "put_cas" /\ pc'[p] = "put_load"
             => ShardHead[loc[p].shard] # loc[p].oldHead]_vars
  /\ \A p \in Caller : (pc[p] # "idle") ~> (pc[p] = "idle")

\* On a single shard a Put whose swap failed, because another caller's swap
\* succeeded, is about to load the head again.
C22_Witness ==
  /\ cfg.n = 1
  /\ \E p \in Caller : pc[p] = "put_load" /\ loc[p].outer = "PutN"

\* A Close has ended in a panic of the Cleaner: the program has died in
\* clear, or the caller has recovered.
CleanerPanicked ==
  \/ last.op = "Close panicked"
  \/ \E p \in Caller :
       pc[p] = "panic" /\ loc[p].op = "Close" /\ loc[p].oldHead # Nil

\* C23: once a Cleaner call has panicked in the drain of Close, and with no
\* call in progress, every shard is drained all the same and
\* CurrentPoolLength counts only the objects in callers' hands.
C23_DrainSurvivesCleanerPanic ==
  CleanerPanicked /\ (\A p \in Caller : pc[p] \in {"idle", "panic"}) =>
    /\ AllResident = {}
    /\ CurrentPoolLength = Outstanding

\* C24: when the swap of Put or PutBlock publishes an object as the head of
\* a shard, the object's next already points to the head that the swap
\* replaced.
C24_NextSetBeforePublish ==
  [][\A p \in Caller :
       pc[p] = "put_cas" /\ pc'[p] = "put_setnext" =>
         next[loc[p].obj] = loc[p].oldHead]_vars

\* C25: whenever the swap of retrieveFromShard replaces head h by n, n is
\* the successor of h in the shard's list at that instant.
C25_PopSwapsInSuccessor ==
  [][\A p \in Caller :
       pc[p] = "rfs_cas" /\ pc'[p] = "inc" =>
         loc[p].nxt = next[loc[p].oldHead]]_vars

\* The cleanup goroutine takes the swap of reinsertKeptObjects in this step,
\* and the swap succeeds.
ReinsertSucceeds ==
  /\ cpc = "reinsert_cas" /\ cpc' # cpc
  /\ ShardHead[cloc.shard] = cloc.currentHead

\* C26: when the swap of reinsertKeptObjects succeeds, the next of the kept
\* tail is the head that the swap replaces (nil for an empty shard), so that
\* the shard's list is the kept objects followed by the list that was there,
\* and every object that was on the shard is still on it.
C26_ReinsertMergesCurrentList ==
  [][ReinsertSucceeds =>
       /\ next[cloc.keptTail] = ShardHead[cloc.shard]
       /\ Resident(cloc.shard) \subseteq Resident(cloc.shard)']_vars

\* C27: an object that a cleanup pass has evicted is on no shard list, and
\* no Get is about to return it (looked at when no Put is between its swap
\* and its SetNext, so that the lists are the ones the Puts have finished).
C27_EvictedObjectGone ==
  NoPutInProgress =>
    \A o \in DOMAIN last.evicted :
      last.evicted[o] =>
        /\ o \notin AllResident
        /\ \A p \in Caller : ~(pc[p] = "inc" /\ loc[p].obj = o)

\* A cleanup pass has detached a list and not yet put back what it keeps.
ListDetached == cpc \in {"filter", "reinsert", "reinsert_cas"}

\* C28: between detach and reinsert the objects that filterUsableObjects
\* comes to were on the shard when it was detached and are in no caller's
\* hands, and the next links of the detached objects are written by the
\* cleanup goroutine only.
C28_DetachedListPrivate ==
  [][ListDetached =>
       /\ cpc = "filter" /\ cloc.current # Nil =>
            /\ cloc.current \in DOMAIN cloc.detached
            /\ cloc.current \notin AllHeld
       /\ \A o \in DOMAIN cloc.detached :
            next'[o] # next[o] => pc' = pc]_vars

\* Caller p waits in GetBlock on shard s: it has added itself to a blocked
\* counter and its GetBlock has not returned.
WaitsOn(p, s) ==
  /\ loc[p].op = "GetBlock"
  /\ loc[p].shard = s
  /\ pc[p] \in {"lock", "wait", "parked", "relock"} \/ Mutex[s] = p

\* C29: the blocked counter of every shard is the number of callers that
\* wait in GetBlock on that shard.
C29_BlockedCountsWaiters ==
  \A s \in DOMAIN blockedShards :
    blockedShards[s] = Cardinality({p \in Caller : WaitsOn(p, s)})

\* getMostBlockedShard of caller p returns in this step.
SelectionEnds(p) == pc[p] = "gmb_scan" /\ pc'[p] = "put_load"

\* C30: the shard that getMostBlockedShard returns has a blocked counter
\* that no other shard exceeds; the same counter values select the same
\* shard (while no caller has ever blocked all counters are 0, so the shard
\* is the one the PutBlock before chose); and PutBlock signals the
\* condition of the shard on which its object lies.
C30_PutBlockPicksMostBlocked ==
  [][\A p \in Caller :
       /\ SelectionEnds(p) =>
            /\ \A s \in DOMAIN blockedShards :
                 blockedShards[s] <= blockedShards[loc'[p].shard]
            /\ BlockedTotal = 0 /\ last.op = "PutBlock" =>
                 loc'[p].shard = last.shard
       /\ pc[p] = "signal" /\ pc'[p] = "idle" =>
            loc[p].obj \in Resident(loc[p].shard)]_vars

\* C31: a caller parked in GetBlock while its shard holds an object, or
\* while CurrentPoolLength is below MaxPoolSize, and no other call is under
\* way, eventually returns, unless another caller consumes an object in the
\* meantime: no PutBlock is needed to wake it.
C31_WaiterReturnsWithoutPutBlock ==
  \A w \in Caller :
    (/\ pc[w] = "parked"
     /\ OthersQuiet(w)
     /\ \/ ShardHead[loc[w].shard] # Nil
        \/ CurrentPoolLength < cfg.MaxPoolSize)
      ~> (pc[w] = "idle" \/ CompetingConsumer(w))

\* Caller p is inside the wait loop of GetBlock and not parked in Wait.
InWaitLoop(p) ==
  /\ loc[p].op = "GetBlock"
  /\ pc[p] \in {"rfs_load", "rfs_next", "rfs_cas", "inc", "wait"}

\* The caller that holds the mutex of shard s, if the pool has a shard s.
MutexHolder(s) == IF s \in DOMAIN Mutex THEN Mutex[s] ELSE NoCaller

\* C32: a shard's mutex is held only by a caller that is inside the wait
\* loop of a GetBlock on that shard and is not parked in Cond.Wait, so the
\* mutex is free whenever no GetBlock is under way on the shard; a mutex
\* that is held is released again, and a caller that waits for the mutex
\* gets it (as long as no panic has ended the program).
C32_MutexHeldOnlyInWaitLoop ==
  /\ [](\A s \in DOMAIN Mutex :
          Mutex[s] # NoCaller =>
            InWaitLoop(Mutex[s]) /\ loc[Mutex[s]].shard = s)
  /\ \A s \in 0 .. (MaxShards - 1) :
       (MutexHolder(s) # NoCaller)
         ~> (MutexHolder(s) = NoCaller \/ Panicked)
  /\ \A p \in Caller :
       (pc[p] \in {"lock", "relock"})
         ~> (Mutex[loc[p].shard] = p \/ Panicked)

\* Two callers meet at a mutex: one holds it in its wait loop while the
\* other waits to lock it.
C32_Witness ==
  \E p, q \in Caller :
    /\ p # q
    /\ pc[q] \in {"lock", "relock"}
    /\ loc[q].op = "GetBlock"
    /\ Mutex[loc[q].shard] = p
    /\ InWaitLoop(p)

\* The user's Cleaner is called on object o in this step by caller p: at the
\* start of Put or PutBlock, or in the loop of clear.
CleanerSite(p, o) ==
  \/ /\ pc[p] \in {"idle", "putn_loop"}
     /\ pc'[p] \in {"put_cas", "gmb_scan"}
     /\ loc'[p].obj = o
  \/ pc[p] = "clear_walk" /\ loc[p].oldHead = o

ShardSkipped ==
  /\ cpc' # cpc \/ cloc' # cloc
  /\ \/ cpc = "take" /\ ShardHead[cloc.shard] = Nil
     \/ cpc = "take_cas" /\ ShardHead[cloc.shard] # cloc.current

\* C34: a pass that finds a shard empty, or loses the swap that detaches its
\* list, leaves the lists, the usage counts and CurrentPoolLength as they
\* are and goes on to the next shard, or ends if that was the last one.
C34_SkippedShardUntouched ==
  [][ShardSkipped =>
       /\ ShardHead' = ShardHead
       /\ next' = next
       /\ usageCount' = usageCount
       /\ CurrentPoolLength' = CurrentPoolLength
       /\ IF cloc.shard + 1 \in ShardIds
          THEN cpc' = "take" /\ cloc'.shard = cloc.shard + 1
          ELSE cpc' = "select"]_vars

\* tryTakeOwnership has loaded the head of the first shard and a caller has
\* changed that head since: the swap the pass is about to try is lost, with
\* a second shard still to visit.
C34_Witness ==
  /\ cpc = "take_cas"
  /\ cloc.shard = 0
  /\ ShardHead[0] # cloc.current
  /\ 1 \in ShardIds

\* Caller p takes a step of a Get or a Put, and the shard the call works on.
GetOrPutStep(p) ==
  /\ pc'[p] # pc[p] \/ loc'[p] # loc[p]
  /\ loc[p].op \in {"Get", "Put"} \/ loc'[p].op \in {"Get", "Put"}

ShardOfCall(p) == IF pc[p] = "idle" THEN loc'[p].shard ELSE loc[p].shard

\* C35: the shard that getShard selects for a worker id is the one with the
\* index id mod the number of the pool's shards, and a step of a Get or a
\* Put changes neither the head nor the list of any other shard.
C35_OnlyOwnShardTouched ==
  [][/\ \A id \in ProcIds : getShard(id) = id % Cardinality(ShardIds)
     /\ \A p \in Caller :
          GetOrPutStep(p) =>
            \A t \in ShardIds \ {ShardOfCall(p)} :
              /\ ShardHead'[t] = ShardHead[t]
              /\ Resident(t)' = Resident(t)]_vars

\* A Get or GetBlock of caller p returns object o in this step.
GetReturns(p, o) ==
  /\ pc[p] \in {"inc", "alloc"}
  /\ pc'[p] # pc[p]
  /\ o \in held'[p] \ held[p]

\* The cleanup pass keeps object o in this step and resets its usage count.
PassKeeps(o) ==
  /\ cpc = "filter"
  /\ cloc.current = o
  /\ cloc' # cloc
  /\ usageCount[o] >= cfg.MinUsageCount

\* C36: the usage count of an object rises by one in every step in which a
\* Get or GetBlock returns the object and changes in no other step, except
\* that a cleanup pass that keeps the object sets it to 0, which never
\* happens to an object a caller holds.
C36_UsageCountDiscipline ==
  [][\A o \in Obj :
       /\ (\E p \in Caller : GetReturns(p, o)) =>
            usageCount'[o] = usageCount[o] + 1
       /\ usageCount'[o] # usageCount[o] =>
            \/ \E p \in Caller : GetReturns(p, o)
            \/ PassKeeps(o) /\ usageCount'[o] = 0 /\ o \notin AllHeld]_vars

\* The objects on the chain of next links that starts at h, in order, and the
\* objects of shard s from its head downwards.
RECURSIVE ListFrom(_, _)
ListFrom(h, seen) ==
  IF h = Nil \/ h \in seen THEN <<>>
  ELSE <<h>> \o ListFrom(next[h], seen \cup {h})

StackOf(s) == ListFrom(ShardHead[s], {})

\* The chain from h up to and including t (the kept list of a pass while
\* keptTail still carries the link it had on the shard).
RECURSIVE ListUpTo(_, _, _)
ListUpTo(h, t, seen) ==
  IF h = Nil \/ h \in seen THEN <<>>
  ELSE IF h = t THEN <<h>>
  ELSE <<h>> \o ListUpTo(next[h], t, seen \cup {h})

\* What a pass has in hand of the list it detached: the objects kept so far
\* followed by the objects still to be examined.
PassOrder == ListUpTo(cloc.keptHead, cloc.keptTail, {}) \o ListFrom(cloc.current, {})

\* Sequence t is sequence s with the occurrences of x left out.
Without(s, x) == SelectSeq(s, LAMBDA y : y # x)

C38_ShardIndexWithinOwnSlice ==
  [][/\ ShardIds' = ShardIds
     /\ \A p \in Caller :
          pc[p] = "idle" /\ pc'[p] # "idle" => loc'[p].shard \in ShardIds]_vars

\* C39: the step of GetBlock that announces a waiter finds a blocked counter
\* for every worker id, and the counter it increments is the one of the
\* shard on whose mutex and condition the call then waits.
C39_BlockedCounterOfWaitedShard ==
  [][\A p \in Caller :
       pc[p] = "blk_add" /\ pc'[p] # pc[p] =>
         /\ pc'[p] = "lock"
         /\ loc[p].shard \in DOMAIN blockedShards
         /\ blockedShards'[loc[p].shard] = blockedShards[loc[p].shard] + 1]_vars

\* A Close of the pool has returned: with cleanup the stopClean channel is
\* closed and no caller is inside Close; without cleanup Close returns at
\* once and the observer has it as the last call.
CloseReturned ==
  \/ stopClean /\ \A q \in Caller : loc[q].op # "Close"
  \/ last.op = "Close"

\* C40: when Close has returned the pool still serves.  A Get returns nil
\* only with the pool at its growth ceiling and otherwise hands its caller
\* an object with a usage count of at least 1; a Put ends with its object
\* on the shard it selected; neither panics.
C40_PoolUsableAfterClose ==
  [][CloseReturned =>
       \A p \in Caller, s \in ShardIds :
         s = loc[p].shard =>
           /\ loc[p].op \in {"Get", "Put"} => pc'[p] # "panic"
           /\ loc[p].op = "Get" /\ Returns(p) =>
                 /\ last'.obj = Nil => pc[p] = "growth" /\ AtCeiling
                 /\ last'.obj # Nil =>
                       /\ last'.obj \in held'[p]
                       /\ usageCount'[last'.obj] >= 1
           /\ loc[p].op = "Put" /\ Returns(p) =>
                 /\ loc[p].obj \in Resident(s)'
                 /\ loc[p].obj \notin held'[p]]_vars

\* After Close has stopped the cleanup goroutine and cleared the shards, a
\* Put has returned and the Get that follows it has popped the object that
\* was put.
C40_Witness ==
  /\ stopClean
  /\ cpc = "exited"
  /\ \A q \in Caller : loc[q].op # "Close"
  /\ last.op = "Put"
  /\ \E p \in Caller :
       pc[p] = "inc" /\ loc[p].op = "Get" /\ loc[p].obj = last.obj

====
